---------------------------- MODULE Spec2Model ----------------------------
(***************************************************************************)
(* A model of the job-lifecycle engine of EnzymeFunctionInitiative's      *)
(* JobExecutor (src/job_exec): the Status flags, the two job stores       *)
(* (DictOfDictStrategy, SQLStrategy), the Operator that picks a handler   *)
(* from a job's status, the Start / CheckStatus handlers of the three     *)
(* handler modules (dummyStrategy.py, localStrategy.py, start.py with     *)
(* check_status.py) and the controller loop of executor.py.               *)
(*                                                                         *)
(* Reading of the source.  The handlers are modelled as the algorithm    *)
(* they write down: which step follows which, what is returned, what is   *)
(* raised, which names are bound on which path.  A slip in the use of an  *)
(* interface that has one evident meaning is read as that meaning:        *)
(* importlib.import as importlib.import_module, FilSystemLoader as        *)
(* FileSystemLoader, pipeline as pipeline_list and a render_batch without *)
(* self in localStrategy.py, updates_dict as update_dict and              *)
(* get_attribute(dict, key) as get_parameter(dict, key) in                *)
(* localStrategy.CheckStatus, a strategy class used as its instance,      *)
(* Operator(config) as the Operator of the mode the configuration names,  *)
(* Status.getStatus in the column type as Status.get_flag, and            *)
(* job_obj.get_updatable_attrs(), which no job model defines, as the      *)
(* updatable_attrs list of src/dataStrategies/sqlStrategy.py,            *)
(* job_obj.get_output_files() and get_result_files(), which no job model *)
(* defines either, as the list of result files the job declares, and the *)
(* list of Operator.check_mode as the modes that have handlers.          *)
(* The answers of the collaborators (file system, transport, scheduler,   *)
(* subprocess) are inputs chosen with \E.                                  *)
(***************************************************************************)
EXTENDS Integers, Sequences, FiniteSets, TLC

(***************************************************************************)
(* Bounds of the model.                                                    *)
(***************************************************************************)
MaxRows == 2        \* rows of the relational Job table
MaxRuns == 2        \* controller runs in one behaviour
MaxCalls == 3       \* Operator.execute calls in the Operator harness
MaxStoreCalls == 3  \* get_jobs and update_job calls in the store harness
MaxFiles == 3       \* file names a transfer may list
MaxTransfers == 2   \* Transport.run calls in the transfer harness
MaxChecks == 2      \* calls on Status in the Status harness

(***************************************************************************)
(* constants.py: Status(Flag).  auto() numbers the members 1, 2, 4, 8, 16; *)
(* NEW_ is Status.NEW (NEW is a reserved word of TLA+).                     *)
(***************************************************************************)
NEW_ == 1
RUNNING == 2
FINISHED == 4
FAILED == 8
ARCHIVED == 16

RECURSIVE BitAnd(_, _)
BitAnd(a, b) ==
    IF a = 0 \/ b = 0 THEN 0
    ELSE 2 * BitAnd(a \div 2, b \div 2)
         + (IF a % 2 = 1 /\ b % 2 = 1 THEN 1 ELSE 0)

BitOr(a, b) == a + b - BitAnd(a, b)

INCOMPLETE == BitOr(NEW_, RUNNING)
COMPLETED == BitOr(FINISHED, BitOr(FAILED, ARCHIVED))
CURRENT == BitOr(BitOr(NEW_, RUNNING), BitOr(FINISHED, FAILED))
ALL == BitOr(CURRENT, ARCHIVED)

BaseStatuses == {NEW_, RUNNING, FINISHED, FAILED, ARCHIVED}
NamedStatuses == BaseStatuses \cup {INCOMPLETE, COMPLETED, CURRENT, ALL}
\* every non-empty flag value
StatusValues == 1..ALL

\* a mistaken membership test: equality in place of containment
Contains_equal(member, flag) == member = flag

\* Flag.__contains__: `member in flag`  is  member & flag == member
Contains(member, flag) == BitAnd(member, flag) = member

\* the name of a member as the class body spells it; "?" stands for a value
\* that has no name
MemberName(s) ==
    CASE s = NEW_ -> "NEW"
      [] s = RUNNING -> "RUNNING"
      [] s = FINISHED -> "FINISHED"
      [] s = FAILED -> "FAILED"
      [] s = ARCHIVED -> "ARCHIVED"
      [] s = INCOMPLETE -> "INCOMPLETE"
      [] s = COMPLETED -> "COMPLETED"
      [] s = CURRENT -> "CURRENT"
      [] s = ALL -> "ALL"
      [] OTHER -> "?"

\* the spellings of a name the model follows: lower case, capitalised,
\* upper case.  "queued" is a name that no member has.
NameForms ==
    {<<"new", "New", "NEW">>, <<"running", "Running", "RUNNING">>,
     <<"finished", "Finished", "FINISHED">>, <<"failed", "Failed", "FAILED">>,
     <<"archived", "Archived", "ARCHIVED">>,
     <<"incomplete", "Incomplete", "INCOMPLETE">>,
     <<"completed", "Completed", "COMPLETED">>,
     <<"current", "Current", "CURRENT">>, <<"all", "All", "ALL">>,
     <<"queued", "Queued", "QUEUED">>}

\* the same spellings of the jobdb types a configuration may name; "csv"
\* and "postgres" are types DataHandler.get_strategy does not list
TypeForms ==
    {<<"dummy", "Dummy", "DUMMY">>,
     <<"dictofdict", "Dictofdict", "DICTOFDICT">>,
     <<"sqlite", "Sqlite", "SQLITE">>, <<"mysql", "Mysql", "MYSQL">>,
     <<"sql", "Sql", "SQL">>, <<"csv", "Csv", "CSV">>,
     <<"postgres", "Postgres", "POSTGRES">>}

FormsOf(name) ==
    {f \in NameForms \cup TypeForms : \E i \in 1..3 : f[i] = name}

\* str.lower() and str.upper() on those spellings
Lower(name) ==
    IF FormsOf(name) = {} THEN name ELSE (CHOOSE f \in FormsOf(name) : TRUE)[1]

Upper(name) ==
    IF FormsOf(name) = {} THEN name ELSE (CHOOSE f \in FormsOf(name) : TRUE)[3]

\* Status.__str__: self.name.lower()
StatusStr(s) == Lower(MemberName(s))

\* a mistaken get_flag: the name is looked up as it is spelt
get_flag_exact(name) ==
    IF \E s \in NamedStatuses : MemberName(s) = name
    THEN CHOOSE s \in NamedStatuses : MemberName(s) = name
    ELSE 0

\* Status.get_flag on a string: getattr(cls, status.upper()); 0 stands for
\* the AttributeError raised for a name that is no member
get_flag(name) ==
    IF \E s \in NamedStatuses : MemberName(s) = Upper(name)
    THEN CHOOSE s \in NamedStatuses : MemberName(s) = Upper(name)
    ELSE 0

(***************************************************************************)
(* What a handler gives back: a (retcode, updates) pair, None, or an       *)
(* exception.  An updates map is a record, its fields the keys of the      *)
(* dict.  calls is the sequence of collaborator steps the handler took.   *)
(***************************************************************************)
EmptyMap == [k \in {} |-> 0]

Return(retcode, updates, calls) ==
    [kind |-> "return", retcode |-> retcode, updates |-> updates,
     error |-> "none", calls |-> calls]

ReturnNone(calls) ==
    [kind |-> "none", retcode |-> -1, updates |-> EmptyMap,
     error |-> "none", calls |-> calls]

Raise(error, calls) ==
    [kind |-> "raise", retcode |-> -1, updates |-> EmptyMap,
     error |-> error, calls |-> calls]

NoOutcome ==
    [kind |-> "idle", retcode |-> -1, updates |-> EmptyMap,
     error |-> "none", calls |-> <<>>]

(***************************************************************************)
(* The collaborators' answers to one handler call.                         *)
(*   fail      the first step of the handler that fails, or "none"         *)
(*   differ    the source and destination directories differ               *)
(*   rc        retcode of the submission (Start) or of the query           *)
(*             (CheckStatus)                                               *)
(*   captured  Start: the submission result binds schedulerJobId           *)
(*   sid       Start: the captured scheduler id ("none": a falsy value)    *)
(*   state     CheckStatus: the state string the scheduler reports         *)
(*   nfiles    CheckStatus: number of declared result files                *)
(***************************************************************************)
StartSteps == {"config", "mkdir", "params", "paramfile", "script", "transfer"}

SchedStates == {"pending", "running", "failed", "finished",
                "PENDING", "RUNNING", "FAILED", "COMPLETED", "TIMEOUT"}

SchedIds == {"sid1", "sid2"}

DefaultEnv ==
    [fail |-> "none", differ |-> FALSE, rc |-> 0, captured |-> TRUE,
     sid |-> "sid1", state |-> "COMPLETED", nfiles |-> 0]

StartEnvs ==
    {[DefaultEnv EXCEPT !.fail = f, !.differ = (f = "transfer")] :
        f \in StartSteps}
    \cup
    {[DefaultEnv EXCEPT !.differ = d, !.rc = r, !.captured = c, !.sid = s] :
        d \in BOOLEAN, r \in {0, 1}, c \in BOOLEAN,
        s \in SchedIds \cup {"none"}}

CheckEnvs ==
    {[DefaultEnv EXCEPT !.fail = f, !.differ = (f = "transfer"),
                        !.nfiles = n] :
        f \in {"config", "mkdir", "transfer"}, n \in {0, 1}}
    \cup
    {[DefaultEnv EXCEPT !.rc = 1]}
    \cup
    {[DefaultEnv EXCEPT !.differ = d, !.state = st, !.nfiles = n] :
        d \in BOOLEAN, st \in SchedStates, n \in {0, 1}}

\* the answers that bear on the handler a job of this status is given
EnvsFor(status) ==
    IF status = NEW_ THEN StartEnvs
    ELSE IF status = RUNNING THEN CheckEnvs
    ELSE {DefaultEnv}

(***************************************************************************)
(* taskStrategies/dummyStrategy.py                                         *)
(***************************************************************************)
\* a mistaken Start: the job is given a name of the handler's own
DummyStart_renaming(job, env) ==
    Return(0, [status |-> RUNNING, jobName |-> "renamed"], <<>>)

DummyStart(job, env) == Return(0, [status |-> RUNNING], <<>>)

\* a mistaken CheckStatus: the union COMPLETED in place of FINISHED
DummyCheckStatus_completed(job, env) ==
    Return(0, [status |-> COMPLETED], <<>>)

DummyCheckStatus(job, env) == Return(0, [status |-> FINISHED], <<>>)

(***************************************************************************)
(* taskStrategies/utilities.py: slurm_job_states                           *)
(***************************************************************************)
job_states(key) ==
    CASE key = "running" -> {"PENDING", "REQUEUED", "RUNNING"}
      [] key = "failed" -> {"BOOT_FAIL", "CANCELLED", "DEADLINE", "FAILED",
                            "NODE_FAIL", "OUT_OF_MEMORY", "PREEMPTED",
                            "SUSPENDED", "TIMEOUT"}
      [] key = "finished" -> {"COMPLETED"}

(***************************************************************************)
(* The steps of Start in the order the code takes them, and the steps a    *)
(* call went through when its first failing step is env.fail.              *)
(***************************************************************************)
StepRank(step) ==
    CASE step = "config" -> 1
      [] step = "mkdir" -> 2
      [] step = "params" -> 3
      [] step = "paramfile" -> 4
      [] step = "script" -> 5
      [] step = "transfer" -> 6
      [] step = "submit" -> 7
      [] OTHER -> 8

\* the steps Start takes, in the order the code takes them
StepOrder ==
    <<"config", "mkdir", "params", "paramfile", "script", "transfer", "submit">>

\* a mistaken Start: the steps after a failed step are taken all the same
StartCalls_on(env) ==
    LET Taken(s) == s = "transfer" => env.differ
    IN  SelectSeq(StepOrder, Taken)

\* the steps a call took when its first failing step is env.fail; the
\* transfer is a step only when the two directories differ
StartCalls(env) ==
    LET Taken(s) == /\ StepRank(s) <= StepRank(env.fail)
                    /\ (s = "transfer" => env.differ)
    IN  SelectSeq(StepOrder, Taken)

(***************************************************************************)
(* taskStrategies/start.py: Start.execute                                  *)
(***************************************************************************)
Start(job, env) ==
    IF env.fail \in {"config", "mkdir", "params", "paramfile", "script"}
    THEN Raise("RuntimeError", StartCalls(env))
    ELSE IF env.differ /\ env.fail = "transfer"
    THEN Raise("RuntimeError", StartCalls(env))       \* raise results[0]
    ELSE IF ~env.captured
    \* len(results) <= 1: schedulerJobId is not bound when line 166 reads it
    THEN Raise("UnboundLocalError", StartCalls(env))
    ELSE LET base == IF env.rc = 0
                     THEN [status |-> RUNNING, timeStarted |-> "now"]
                     ELSE [status |-> FAILED]
         IN  Return(env.rc,
                    IF env.sid # "none"
                    THEN [schedulerJobId |-> env.sid] @@ base
                    ELSE base,
                    StartCalls(env))

(***************************************************************************)
(* taskStrategies/localStrategy.py: Start.execute                          *)
(***************************************************************************)
LocalStart(job, env) ==
    IF env.fail \in {"config", "mkdir", "params", "paramfile", "script"}
    THEN Raise("RuntimeError", StartCalls(env))
    ELSE IF env.differ /\ env.fail = "transfer"
    THEN Raise("RuntimeError", StartCalls(env))
    ELSE IF env.rc # 0
    THEN Raise("RuntimeError", StartCalls(env))       \* a command failed
    ELSE IF ~env.captured
    \* no command holds "sbatch": schedulerJobId is not bound at line 135
    THEN Raise("UnboundLocalError", StartCalls(env))
    ELSE IF env.sid = "none"
    THEN Raise("IndexError", StartCalls(env))         \* empty stdout
    ELSE Return(0,
                [status |-> RUNNING, timeStarted |-> "now",
                 schedulerJobId |-> env.sid],
                StartCalls(env))

\* the list [dir / file for file in file_list] of localStrategy.py, written
\* out: one reference for each of the n declared result files
ResultRefs(dir, n) == IF n = 0 THEN "[]" ELSE "[" \o dir \o "/result1]"

\* ",".join([to_destination / file for file in file_list]) of
\* check_status.py: the items are Path objects, so join raises TypeError
\* unless the list is empty
JoinRefs(n) ==
    IF n = 0 THEN [raised |-> FALSE, value |-> ""]
    ELSE [raised |-> TRUE, value |-> ""]

(***************************************************************************)
(* taskStrategies/check_status.py: CheckStatus.execute                     *)
(***************************************************************************)
\* a mistaken CheckStatus: the result files are transferred whether or not
\* the two directories differ
CheckCalls_always(env) == <<"query", "transfer">>

\* the calls of a CheckStatus that reached line 118: the query, and the
\* transfer when from_destination != to_destination
CheckCalls(env) ==
    <<"query">> \o (IF env.differ THEN <<"transfer">> ELSE <<>>)

\* a mistaken CheckStatus: the outcome of the transfer is not looked at
CheckStatus_optimistic(job, env) ==
    IF job.schedulerJobId \in {"absent", "none"}
    THEN Return(1, [status |-> FAILED], <<>>)
    ELSE IF env.state \in {"pending", "running"}
    THEN Return(0, [status |-> RUNNING], <<"query">>)
    ELSE Return(0, [status |-> FINISHED, results |-> ""], CheckCalls(env))

\* a mistaken CheckStatus: a job still running gets its start time again
CheckStatus_restamp(job, env) ==
    IF job.schedulerJobId \in {"absent", "none"}
    THEN Return(1, [status |-> FAILED], <<>>)
    ELSE Return(0, [status |-> RUNNING, timeStarted |-> "now"], <<"query">>)

\* a mistaken CheckStatus: the scheduler is asked whatever the job carries
CheckStatus_unguarded(job, env) ==
    IF env.rc # 0 THEN Raise("RuntimeError", <<"query">>)
    ELSE IF env.state \in {"pending", "running"}
    THEN Return(0, [status |-> RUNNING], <<"query">>)
    ELSE Return(0, [status |-> FAILED], <<"query">>)

CheckStatus(job, env) ==
    IF job.schedulerJobId = "absent"
    THEN Raise("AttributeError", <<>>)
    ELSE IF job.schedulerJobId = "none"
    THEN Return(1, [status |-> FAILED], <<>>)
    ELSE IF env.fail = "config"
    THEN Raise("RuntimeError", <<>>)
    ELSE IF env.rc # 0
    THEN Raise("RuntimeError", <<"query">>)             \* raise results[0]
    ELSE IF env.state \in {"pending", "running"}
    THEN Return(0, [status |-> RUNNING], <<"query">>)
    ELSE IF env.state = "failed"
    THEN Return(0, [status |-> FAILED], <<"query">>)
    ELSE IF env.state \in job_states("finished")
    THEN IF env.fail = "mkdir"
         THEN Raise("RuntimeError", <<"query">>)
         ELSE IF env.differ /\ env.fail = "transfer"
         THEN Raise("RuntimeError", CheckCalls(env))
         ELSE IF JoinRefs(env.nfiles).raised
         THEN Raise("TypeError", CheckCalls(env))
         ELSE Return(0, [status |-> FINISHED,
                         results |-> JoinRefs(env.nfiles).value],
                     CheckCalls(env))
    ELSE ReturnNone(<<"query">>)          \* no branch is taken: falls off the end

(***************************************************************************)
(* taskStrategies/localStrategy.py: CheckStatus.execute.  The transfer is  *)
(* made whenever a transport strategy is configured (env.differ).          *)
(***************************************************************************)
LocalCheckStatus(job, env) ==
    IF job.schedulerJobId = "absent"
    THEN Raise("AttributeError", <<>>)
    ELSE IF job.schedulerJobId = "none"
    THEN Return(1, [status |-> FAILED], <<>>)
    ELSE IF env.rc # 0
    THEN Raise("RuntimeError", <<"query">>)
    ELSE IF env.state \in job_states("running")
    THEN Return(0, [status |-> RUNNING], <<"query">>)
    ELSE IF env.state \in job_states("failed")
    THEN Return(0, [status |-> FAILED], <<"query">>)
    ELSE IF env.state \in job_states("finished")
    THEN IF ~env.differ
         THEN Return(0, [status |-> FINISHED,
                         results |-> ResultRefs("cwd", env.nfiles)],
                     <<"query">>)
         ELSE IF env.fail \in {"config", "mkdir", "transfer"}
         THEN Raise("RuntimeError", CheckCalls(env))
         ELSE Return(0, [status |-> FINISHED,
                         results |-> ResultRefs("to", env.nfiles)],
                     CheckCalls(env))
    ELSE ReturnNone(<<"query">>)

(***************************************************************************)
(* taskStrategies/transportationStrategies/localTransportation.py:         *)
(* Transport.run.  src and dst are the sets of file names present in       *)
(* from_destination and to_destination; the loop takes the files of the    *)
(* list in order, renames each one that exists at once and returns at the  *)
(* first one that does not.                                                *)
(***************************************************************************)
\* a path: the directory it lies in ("" for a relative path, "from" and "to"
\* for from_destination and to_destination) and its file name
FilePath(dir, name) == [dir |-> dir, name |-> name]

\* lines 50-51: if not from_destination in file.parents:
\*                  file = from_destination / file
Resolve(file) ==
    IF file.dir = "from" THEN file ELSE FilePath("from", file.name)

\* a mistaken loop: the file is copied, the source keeps it
RECURSIVE TransportLoop_copy(_, _, _, _)
TransportLoop_copy(file_list, src, dst, new_file_list) ==
    IF file_list = <<>>
    THEN [retcode |-> 0, results |-> new_file_list, src |-> src, dst |-> dst]
    ELSE LET file == Resolve(Head(file_list))
         IN  IF file.name \in src
             THEN TransportLoop_copy(Tail(file_list), src,
                                     dst \cup {file.name},
                                     Append(new_file_list,
                                            FilePath("to", file.name)))
             ELSE [retcode |-> 1, results |-> <<"RuntimeError">>,
                   src |-> src, dst |-> dst]

RECURSIVE TransportLoop(_, _, _, _)
TransportLoop(file_list, src, dst, new_file_list) ==
    IF file_list = <<>>
    THEN [retcode |-> 0, results |-> new_file_list, src |-> src, dst |-> dst]
    ELSE LET file == Resolve(Head(file_list))
             new_file == FilePath("to", file.name)
         IN  IF file.name \in src                      \* file.is_file()
             THEN TransportLoop(Tail(file_list), src \ {file.name},
                                dst \cup {file.name},   \* file.rename(new_file)
                                Append(new_file_list, new_file))
             ELSE [retcode |-> 1, results |-> <<"RuntimeError">>,
                   src |-> src, dst |-> dst]

Transport_run(file_list, src, dst) == TransportLoop(file_list, src, dst, <<>>)

(***************************************************************************)
(* taskOperator.py: Operator                                               *)
(*   mode      the handler module bound by get_strategies                  *)
(*   strategy  Operator._strategy: "None", "Start" or "CheckStatus"        *)
(***************************************************************************)
Modes == {"dummy", "local", "scheduler"}

\* the modes a configuration may name besides: one that check_mode rejects
\* (the mode of tests/03_taskOperator_test.py) and one that it lets through
\* although taskStrategies holds no module of that name
UnknownModes == {"not_implemented", "mysql"}

ConfigModes == Modes \cup UnknownModes

\* Operator.check_mode: the modes that pass.  The list is read as the modes
\* that have handlers, together with the names it also spells out.
check_mode(m) == m \in Modes \cup {"mysql", "sqlite"}

\* Operator.get_strategies: the import of the handler module succeeds
get_strategies(m) == m \in Modes

\* a mistaken __init__: the mode is not looked at until a handler is needed
Operator_init_late(m) == [raised |-> FALSE, error |-> "none"]

\* Operator.__init__: check_mode, then get_strategies
Operator_init(m) ==
    IF ~check_mode(m)
    THEN [raised |-> TRUE, error |-> "NotImplementedError"]
    ELSE IF ~get_strategies(m)
    THEN [raised |-> TRUE, error |-> "ModuleNotFoundError"]
    ELSE [raised |-> FALSE, error |-> "none"]

\* a mistaken prepare: membership tests in place of the equalities
prepare_membership(strategy, job_status) ==
    IF Contains(NEW_, job_status)
    THEN [raised |-> FALSE, strategy |-> "Start"]
    ELSE IF Contains(RUNNING, job_status)
    THEN [raised |-> FALSE, strategy |-> "CheckStatus"]
    ELSE [raised |-> TRUE, strategy |-> strategy]

\* a mistaken prepare: a handler once selected is kept
prepare_sticky(strategy, job_status) ==
    IF strategy # "None"
    THEN [raised |-> FALSE, strategy |-> strategy]
    ELSE IF job_status = NEW_
    THEN [raised |-> FALSE, strategy |-> "Start"]
    ELSE IF job_status = RUNNING
    THEN [raised |-> FALSE, strategy |-> "CheckStatus"]
    ELSE [raised |-> TRUE, strategy |-> strategy]

\* Operator.prepare: raised stands for the ValueError of the else branch
prepare(strategy, job_status) ==
    IF job_status = NEW_
    THEN [raised |-> FALSE, strategy |-> "Start"]
    ELSE IF job_status = RUNNING
    THEN [raised |-> FALSE, strategy |-> "CheckStatus"]
    ELSE [raised |-> TRUE, strategy |-> strategy]

\* self._strategy.execute(job, config_obj) for the handler classes of m
HandlerExecute(m, strategy, job, env) ==
    CASE m = "dummy" /\ strategy = "Start" -> DummyStart(job, env)
      [] m = "dummy" /\ strategy = "CheckStatus" -> DummyCheckStatus(job, env)
      [] m = "local" /\ strategy = "Start" -> LocalStart(job, env)
      [] m = "local" /\ strategy = "CheckStatus" -> LocalCheckStatus(job, env)
      [] m = "scheduler" /\ strategy = "Start" -> Start(job, env)
      [] m = "scheduler" /\ strategy = "CheckStatus" -> CheckStatus(job, env)

\* Operator.execute: the new _strategy, the handler that was run ("none" when
\* prepare raised), how the handler ended ("return", "none" for a return of
\* None, "raise") and what the caller gets; a handler that returns None makes
\* the unpacking `retcode, results = ...` raise TypeError
Operator_execute(m, strategy, job, env) ==
    LET p == prepare(strategy, job.status)
        h == IF p.raised THEN Raise("ValueError", <<>>)
             ELSE HandlerExecute(m, p.strategy, job, env)
    IN  [strategy |-> p.strategy,
         ran |-> IF p.raised THEN "none" ELSE p.strategy,
         handler |-> IF p.raised THEN "idle" ELSE h.kind,
         out |-> IF h.kind = "none" THEN Raise("TypeError", h.calls) ELSE h]

(***************************************************************************)
(* The job stores.  A table maps job ids to records of attributes.         *)
(***************************************************************************)
RECURSIVE SortedSeq(_)
SortedSeq(S) ==
    IF S = {} THEN <<>>
    ELSE LET m == CHOOSE x \in S : \A y \in S : x <= y
         IN  <<m>> \o SortedSeq(S \ {m})

EmptyTable == [k \in {} |-> EmptyMap]

\* dataStrategies/baseStrategy.py: DictOfDictStrategy.load_data
DictSeed ==
    (1 :> [status |-> FINISHED]) @@ (2 :> [status |-> RUNNING]) @@
    (3 :> [status |-> RUNNING]) @@ (4 :> [status |-> NEW_]) @@
    (5 :> [status |-> NEW_]) @@ (6 :> [status |-> FAILED]) @@
    (7 :> [status |-> ARCHIVED])

\* jobModels/job_dummy.py: Job(**subdict), as far as the handlers read it
DictJob(subdict) ==
    [id |-> subdict.id, status |-> subdict.status,
     schedulerJobId |-> IF "schedulerJobId" \in DOMAIN subdict
                        THEN subdict.schedulerJobId ELSE "absent"]

\* fetch_jobs, one pass of the for loop: subdict.update({"id": key})
DictVisit(d, key) == [d EXCEPT ![key] = [id |-> key] @@ d[key]]

\* fetch_jobs from the generator's position to its next yield: the keys in
\* rest are visited in order until one passes `temp_job.status in status`;
\* found = 0 when the generator is exhausted
RECURSIVE DictFetchNext(_, _, _)
DictFetchNext(d, status, rest) ==
    IF rest = <<>> THEN [data |-> d, found |-> 0, rest |-> <<>>]
    ELSE LET key == Head(rest)
             d1 == DictVisit(d, key)
         IN  IF Contains(d1[key].status, status)
             THEN [data |-> d1, found |-> key, rest |-> Tail(rest)]
             ELSE DictFetchNext(d1, status, Tail(rest))

\* jobModels/job_plain.py: Job._updatable_attrs
plain_updatable_attrs == {"status", "timeStarted", "timeCompleted"}

\* DictOfDictStrategy.update_job: self.data[job_obj.id].update(update_dict)
DictUpdateJob(d, id, update_dict) == [d EXCEPT ![id] = update_dict @@ d[id]]

\* jobModels/job_dummy_orm.py: FlagEnumType.process_bind_param
process_bind_param(value) == StatusStr(value)

\* FlagEnumType.process_result_value: the column string back to a flag
\* (enum_class.getStatus read as Status.get_flag)
process_result_value(value) == get_flag(value)

\* the columns of the Job table the model follows
Columns == {"status", "timeStarted", "timeCompleted", "results",
            "schedulerJobId", "jobName"}

\* the ORM object of a row, as far as the handlers read it
SqlJob(d, id) ==
    [id |-> id, status |-> process_result_value(d[id].status),
     schedulerJobId |-> d[id].schedulerJobId]

\* a mistaken status_strings: the name of the filter, a union not split
status_strings_whole(status) == {StatusStr(status)}

\* SQLStrategy.fetch_jobs: status_strings
status_strings(status) ==
    {StatusStr(flag) : flag \in {f \in BaseStatuses : Contains(f, status)}}

\* a mistaken SELECT: no WHERE clause, the rows of every status are given
SqlSelect_all(d, status) == SortedSeq(DOMAIN d)

\* SQLStrategy.fetch_jobs: the rows the SELECT ... WHERE status IN (...) gives
SqlSelect(d, status) ==
    SortedSeq({id \in DOMAIN d : d[id].status \in status_strings(status)})

\* src/dataStrategies/sqlStrategy.py: SQLStrategy.updatable_attrs
updatable_attrs == {"status", "timeStarted", "timeCompleted", "results"}

\* the value a column takes when the session commits an attribute
Bind(key, value) == IF key = "status" THEN process_bind_param(value) ELSE value

\* SQLStrategy.update_job on an open session
SqlUpdateJob(d, id, update_dict) ==
    [d EXCEPT ![id] =
        [c \in DOMAIN d[id] |->
            IF c \in DOMAIN update_dict /\ c \in updatable_attrs
            THEN Bind(c, update_dict[c])
            ELSE d[id][c]]]

(***************************************************************************)
(* State.                                                                  *)
(*   mode, strategy   the Operator: its handler module and _strategy       *)
(*   backend          the store strategy: "dict" or "sql"                  *)
(*   data             the jobs: self.data of the dict store, the Job table *)
(*                    of the database of the relational store              *)
(*   opened           dict store: self.data is not None; relational store: *)
(*                    self.session is not None                             *)
(*   gen              the generator fetch_jobs returned: its filter, the   *)
(*                    rows left, the ids yielded, whether the store has    *)
(*                    changed since its first next(), whether it raised    *)
(*   pc, run          the controller's position and the number of its run  *)
(*   job              the job object the loop holds                        *)
(*   ret              the last Operator.execute: the job's id, status and  *)
(*                    scheduler id, the handler run, the collaborators'    *)
(*                    answers and what the call gave                       *)
(*   lastWrite        the last update_job call: its job, its updates, the  *)
(*                    job's record before and after it, whether it raised  *)
(*   atStart          the tables the runs found when they opened the store *)
(*   dispatched       the Operator.execute calls of the current run        *)
(*   opLog            the Operator.execute calls of the Operator harness   *)
(*   calls            number of get_jobs and update_job calls of the store *)
(*                    harness                                              *)
(*   killed           the runs that ended by the death of the process: the *)
(*                    run, where the loop stood, the job it held           *)
(*   pair             the in-memory store that is given the same calls as  *)
(*                    the relational store in the two-store harness        *)
(***************************************************************************)
VARIABLES mode, strategy, backend, data, opened, gen, pc, run, job, ret,
          lastWrite, atStart, dispatched, opLog, calls, fs, two, conn, jobdb,
          killed, pair

vars == <<mode, strategy, backend, data, opened, gen, pc, run, job, ret,
          lastWrite, atStart, dispatched, opLog, calls, fs, two, conn, jobdb,
          killed, pair>>

\* the two directories of a transfer before any Transport.run
NoFs == [src |-> {}, dst |-> {}, before |-> {}, dstBefore |-> {},
         list |-> <<>>, retcode |-> 0, results |-> <<>>, called |-> FALSE]

NoJob == [id |-> 0, status |-> 0, schedulerJobId |-> "absent"]

NoRet == [id |-> 0, status |-> 0, sid |-> "absent", ran |-> "none",
          handler |-> "idle", env |-> DefaultEnv, out |-> NoOutcome]

NoWrite == [id |-> 0, updates |-> EmptyMap, before |-> EmptyMap,
            after |-> EmptyMap, raised |-> FALSE]

NoGen == [active |-> FALSE, status |-> 0, started |-> FALSE, rest |-> <<>>,
          yielded |-> <<>>, dirty |-> FALSE, raised |-> FALSE]

\* the jobdb type the configuration names and whether DataHandler(config)
\* raised on it; Configured(b) is a configuration that gives the store b
Configured(b) ==
    [type |-> IF b = "dict" THEN "dummy" ELSE "sqlite", raised |-> FALSE]

\* a mistaken __init__: the configured type is used as it is spelt
strategy_type_asis(type) == type

\* DataHandler.__init__: config.get_parameter("jobdb_dict","type").lower()
strategy_type(type) == Lower(type)

\* DataHandler.get_strategy: the store strategy for a strategy_type, or the
\* error it raises
get_strategy(t) ==
    IF t \notin {"dummy", "dictofdict", "sqlite", "mysql", "sql"}
    THEN "NotImplementedError"
    ELSE IF t \in {"dummy", "dictofdict"} THEN "dict"
    ELSE "sql"

\* the connection of the store strategy: whether an engine exists, how
\* often close was called since the store was last opened, and how the
\* last close ended
NoConn == [engine |-> FALSE, closes |-> 0, raised |-> FALSE,
           committed |-> FALSE]

\* close of the store strategy, given whether self.data is loaded or
\* self.session is set.  DictOfDictStrategy.close is `pass`;
\* SQLStrategy.close commits on self.session first, outside its try
\* and before it tests the session, then closes the session and
\* disposes of the engine.
close(b, session, c) ==
    IF b = "dict"
    THEN [session |-> session,
          conn |-> [c EXCEPT !.closes = @ + 1, !.raised = FALSE,
                             !.committed = FALSE]]
    ELSE IF ~session
    THEN [session |-> FALSE,                  \* None has no commit
          conn |-> [c EXCEPT !.closes = @ + 1, !.raised = TRUE,
                             !.committed = FALSE]]
    ELSE [session |-> FALSE,
          conn |-> [engine |-> FALSE, closes |-> c.closes + 1,
                    raised |-> FALSE, committed |-> TRUE]]

\* the in-memory store of the two-store harness before it is opened
NoPair == [data |-> EmptyTable, gen |-> NoGen, job |-> 0, held |-> {}]

\* two controllers on one Job table: what each holds before it starts, and
\* how often each job was submitted and had its result files transferred
Controllers == {1, 2}

NoCtl == [pc |-> "idle", strategy |-> "None", gen |-> NoGen, view |-> <<>>,
          stale |-> {}, id |-> 0, ret |-> NoRet]

NoTwo == [ctl |-> [c \in Controllers |-> NoCtl],
          submits |-> [i \in 1..MaxRows |-> 0],
          transfers |-> [i \in 1..MaxRows |-> 0]]

(***************************************************************************)
(* The Operator harness: Operator.execute called directly, as              *)
(* tests/03_taskOperator_test.py does, on jobs of any named status.        *)
(***************************************************************************)
InitOperator ==
    /\ fs = NoFs
    /\ two = NoTwo
    /\ conn = NoConn
    /\ mode \in Modes
    /\ strategy = "None"
    /\ backend = "dict"
    /\ jobdb = Configured(backend)
    /\ killed = <<>>
    /\ pair = NoPair
    /\ data = EmptyTable
    /\ opened = FALSE
    /\ gen = NoGen
    /\ pc = "idle"
    /\ run = 0
    /\ job = NoJob
    /\ ret = NoRet
    /\ lastWrite = NoWrite
    /\ atStart = <<>>
    /\ dispatched = <<>>
    /\ opLog = <<>>
    /\ calls = 0

\* the collaborators answer well, or the submission or query fails
HarnessEnvs == {DefaultEnv, [DefaultEnv EXCEPT !.rc = 1]}

OperatorCall ==
    /\ UNCHANGED <<fs, two, conn, jobdb,
                   killed, pair>>
    /\ Len(opLog) < MaxCalls
    /\ \E s \in NamedStatuses :
       \E sid \in (IF s = RUNNING THEN {"none", "sid1"} ELSE {"absent"}) :
       \E env \in HarnessEnvs :
          LET j == [id |-> 1, status |-> s, schedulerJobId |-> sid]
              r == Operator_execute(mode, strategy, j, env)
          IN  /\ strategy' = r.strategy
              /\ job' = j
              /\ ret' = [id |-> j.id, status |-> s, sid |-> sid,
                         ran |-> r.ran, handler |-> r.handler, env |-> env,
                         out |-> r.out]
              /\ opLog' = Append(opLog,
                    [status |-> s, before |-> strategy, after |-> r.strategy,
                     ran |-> r.ran, kind |-> r.out.kind,
                     error |-> r.out.error])
    /\ UNCHANGED <<mode, backend, data, opened, gen, pc, run, lastWrite,
                   atStart, dispatched, calls>>

NextOperator == OperatorCall

SpecOperator == InitOperator /\ [][NextOperator]_vars

\* C1: a job of status NEW is always given to Start and a job of status
\* RUNNING to CheckStatus, whatever was dispatched before, and before the
\* first execute no handler is selected.
C1_HandlerByStatus ==
    /\ opLog = <<>> => strategy = "None"
    /\ \A i \in 1..Len(opLog) :
          /\ opLog[i].status = NEW_ =>
                opLog[i].ran = "Start" /\ opLog[i].after = "Start"
          /\ opLog[i].status = RUNNING =>
                opLog[i].ran = "CheckStatus" /\ opLog[i].after = "CheckStatus"

\* a NEW job dispatched right after a RUNNING job, and the reverse
C1_Witness ==
    /\ Len(opLog) = 3
    /\ opLog[1].status = RUNNING /\ opLog[1].ran = "CheckStatus"
    /\ opLog[2].status = NEW_ /\ opLog[2].ran = "Start"
    /\ opLog[3].status = RUNNING /\ opLog[3].ran = "CheckStatus"

\* C2: dispatching on a status outside {NEW, RUNNING} raises; no handler is
\* executed and the handler selected before is left as it was.
C2_RejectOtherStatus ==
    \A i \in 1..Len(opLog) :
        opLog[i].status \notin {NEW_, RUNNING} =>
            /\ opLog[i].kind = "raise"
            /\ opLog[i].error = "ValueError"
            /\ opLog[i].ran = "none"
            /\ opLog[i].after = opLog[i].before

\* a union and a terminal status rejected after Start had been selected
C2_Witness ==
    /\ Len(opLog) = 3
    /\ opLog[1].status = NEW_
    /\ opLog[2].status = INCOMPLETE /\ opLog[2].kind = "raise"
    /\ opLog[2].before = "Start" /\ opLog[2].after = "Start"
    /\ opLog[3].status = FINISHED /\ opLog[3].kind = "raise"
    /\ strategy = "Start"

(***************************************************************************)
(* The controller: executor.py run MaxRuns times over one store.           *)
(***************************************************************************)
\* a row of the Job table: the status column holds the lowercase name
SqlRow(status, sid) ==
    [status |-> process_bind_param(status), schedulerJobId |-> sid,
     timeStarted |-> "null", timeCompleted |-> "null", results |-> "null",
     jobName |-> "name"]

\* the rows a Job table can hold before a run: one base status at rest, a
\* RUNNING row with or without a captured scheduler id
SqlRows ==
    {SqlRow(s, "none") : s \in BaseStatuses} \cup {SqlRow(RUNNING, "sid1")}

SqlTables == [1..MaxRows -> SqlRows]

\* the status a store holds for job id, as a flag
StoredStatus(b, d, id) ==
    IF b = "sql" THEN process_result_value(d[id].status) ELSE d[id].status

\* DataHandler.__enter__: load_data of the store strategy
load_data(b, d) == IF b = "dict" THEN DictSeed ELSE d

\* a mistaken generator: the relational store stamps each row it yields
GenNext_marking(b, d, g) ==
    LET rows == IF g.started THEN g.rest ELSE SqlSelect(d, g.status)
    IN  IF rows = <<>> THEN [data |-> d, found |-> 0, rest |-> <<>>]
        ELSE [data |-> [d EXCEPT ![Head(rows)].timeStarted = "fetched"],
              found |-> Head(rows), rest |-> Tail(rows)]

\* a mistaken generator: the relational store runs its SELECT again at
\* every next()
GenNext_requery(b, d, g) ==
    IF b = "dict"
    THEN DictFetchNext(d, g.status,
                       IF g.started THEN g.rest ELSE SortedSeq(DOMAIN d))
    ELSE LET rows == SqlSelect(d, g.status)
         IN  IF rows = <<>> THEN [data |-> d, found |-> 0, rest |-> <<>>]
             ELSE [data |-> d, found |-> Head(rows), rest |-> Tail(rows)]

\* next() on the generator get_jobs returned.  The dict store walks the keys
\* of self.data, reading each record when it comes to it; the relational
\* store runs its SELECT at the first next() and walks the rows it got.
GenNext(b, d, g) ==
    IF b = "dict"
    THEN DictFetchNext(d, g.status,
                       IF g.started THEN g.rest ELSE SortedSeq(DOMAIN d))
    ELSE LET rows == IF g.started THEN g.rest ELSE SqlSelect(d, g.status)
         IN  IF rows = <<>> THEN [data |-> d, found |-> 0, rest |-> <<>>]
             ELSE [data |-> d, found |-> Head(rows), rest |-> Tail(rows)]

\* the job object the generator yields for a record
JobOf(b, d, id) == IF b = "dict" THEN DictJob(d[id]) ELSE SqlJob(d, id)

\* a mistaken update_job: the relational store stamps the row at each call
update_job_touch(b, d, id, update_dict) ==
    IF b = "dict" THEN DictUpdateJob(d, id, update_dict)
    ELSE [SqlUpdateJob(d, id, update_dict) EXCEPT ![id].timeCompleted = "now"]

\* a mistaken update_job: the updates are written to every record of the
\* store, as by an UPDATE without its WHERE clause
update_job_all(b, d, id, update_dict) ==
    [i \in DOMAIN d |->
        IF b = "dict" THEN DictUpdateJob(d, i, update_dict)[i]
        ELSE SqlUpdateJob(d, i, update_dict)[i]]

\* DataHandler.update_job on an open store
update_job(b, d, id, update_dict) ==
    IF b = "dict" THEN DictUpdateJob(d, id, update_dict)
    ELSE IF DOMAIN update_dict = {} THEN d
    ELSE SqlUpdateJob(d, id, update_dict)

\* SQLStrategy.update_job reaches session.commit(), the one call of
\* update_job that the database can make raise
CommitMayFail(b, update_dict) == b = "sql" /\ DOMAIN update_dict # {}

\* a mistaken loop body: the updates of a failed handler are not written
LoopWrite_checked(out) ==
    [called |-> out.retcode = 0, updates |-> out.updates]

\* executor.py, lines 53-55: what the loop body passes to update_job once
\* Operator.execute has returned (retcode, updates)
LoopWrite(out) == [called |-> TRUE, updates |-> out.updates]

\* the entry the run keeps of one dispatch
Dispatch(id, r) ==
    [id |-> id, ran |-> r.ran,
     failed |-> r.out.kind # "return" \/ r.out.retcode # 0,
     raised |-> r.out.kind # "return"]

Init ==
    /\ fs = NoFs
    /\ two = NoTwo
    /\ conn = NoConn
    /\ mode \in ConfigModes
    /\ strategy = "None"
    /\ backend \in {"dict", "sql"}
    /\ jobdb = Configured(backend)
    /\ killed = <<>>
    /\ pair = NoPair
    /\ data \in (IF backend = "dict" THEN {EmptyTable} ELSE SqlTables)
    /\ opened = FALSE
    /\ gen = NoGen
    /\ pc = "idle"
    /\ run = 0
    /\ job = NoJob
    /\ ret = NoRet
    /\ lastWrite = NoWrite
    /\ atStart = <<>>
    /\ dispatched = <<>>
    /\ opLog = <<>>
    /\ calls = 0

\* executor.py, lines 44-49: a new Operator, the store opened, get_jobs called
Enter ==
    /\ UNCHANGED <<fs, two, jobdb,
                   killed, pair>>
    /\ conn' = [NoConn EXCEPT !.engine = (backend = "sql")]
    /\ pc \in {"idle", "done", "crashed", "killed"}
    /\ run < MaxRuns
    /\ ~Operator_init(mode).raised
    /\ run' = run + 1
    /\ strategy' = "None"
    /\ data' = load_data(backend, data)
    /\ opened' = TRUE
    /\ gen' = [NoGen EXCEPT !.active = TRUE, !.status = INCOMPLETE]
    /\ atStart' = Append(atStart, data')
    /\ dispatched' = <<>>
    /\ job' = NoJob
    /\ ret' = NoRet
    /\ lastWrite' = NoWrite
    /\ pc' = "loop"
    /\ UNCHANGED <<mode, backend, opLog, calls>>

\* executor.py, line 44: Operator(config) raises; the process ends before
\* the with statement of line 47 is reached
EnterFail ==
    /\ pc \in {"idle", "done", "crashed"}
    /\ run < MaxRuns
    /\ Operator_init(mode).raised
    /\ run' = run + 1
    /\ pc' = "crashed"
    /\ UNCHANGED <<mode, strategy, backend, data, opened, gen, job, ret,
                   lastWrite, atStart, dispatched, opLog, calls, fs, two, conn, jobdb,
                   killed, pair>>

\* executor.py, line 51: the for statement takes the next job
LoopNext ==
    /\ UNCHANGED <<fs, two, conn, jobdb,
                   killed, pair>>
    /\ pc = "loop"
    /\ \E n \in {GenNext(backend, data, gen)} :
           /\ n.found # 0
           /\ data' = n.data
           /\ gen' = [gen EXCEPT !.started = TRUE, !.rest = n.rest,
                                 !.yielded = Append(@, n.found)]
           /\ job' = JobOf(backend, n.data, n.found)
    /\ pc' = "exec"
    /\ UNCHANGED <<mode, strategy, backend, opened, run, ret, lastWrite,
                   atStart, dispatched, opLog, calls>>

\* executor.py, line 51: the generator is exhausted, the loop ends
LoopEnd ==
    /\ UNCHANGED <<fs, two, conn, jobdb,
                   killed, pair>>
    /\ pc = "loop"
    /\ \E n \in {GenNext(backend, data, gen)} :
           /\ n.found = 0
           /\ data' = n.data
           /\ gen' = [gen EXCEPT !.active = FALSE, !.started = TRUE,
                                 !.rest = <<>>]
    /\ pc' = "exit"
    /\ UNCHANGED <<mode, strategy, backend, opened, run, job, ret, lastWrite,
                   atStart, dispatched, opLog, calls>>

\* a mistaken dispatch: the handler sets the new status on the job object it
\* was given and the store takes it over at once
ExecuteOn_writing(envs) ==
    /\ UNCHANGED <<fs, two, conn, jobdb, killed, pair>>
    /\ pc = "exec"
    /\ \E env \in envs :
          LET r == Operator_execute(mode, strategy, job, env)
          IN  /\ strategy' = r.strategy
              /\ ret' = [id |-> job.id, status |-> job.status,
                         sid |-> job.schedulerJobId, ran |-> r.ran,
                         handler |-> r.handler, env |-> env, out |-> r.out]
              /\ dispatched' = Append(dispatched, Dispatch(job.id, r))
              /\ pc' = IF r.out.kind = "return" THEN "update" ELSE "raised"
              /\ data' = IF "status" \in DOMAIN r.out.updates
                         THEN update_job(backend, data, job.id,
                                         [status |-> r.out.updates.status])
                         ELSE data
    /\ UNCHANGED <<mode, backend, opened, gen, run, job, lastWrite,
                   atStart, opLog, calls>>

\* executor.py, line 53: task_operator.execute(job, config), the
\* collaborators giving one of the answers of envs
ExecuteOn(envs) ==
    /\ UNCHANGED <<fs, two, conn, jobdb,
                   killed, pair>>
    /\ pc = "exec"
    /\ \E env \in envs :
          LET r == Operator_execute(mode, strategy, job, env)
          IN  /\ strategy' = r.strategy
              /\ ret' = [id |-> job.id, status |-> job.status,
                         sid |-> job.schedulerJobId, ran |-> r.ran,
                         handler |-> r.handler, env |-> env, out |-> r.out]
              /\ dispatched' = Append(dispatched, Dispatch(job.id, r))
              /\ pc' = IF r.out.kind = "return" THEN "update" ELSE "raised"
    /\ UNCHANGED <<mode, backend, data, opened, gen, run, job, lastWrite,
                   atStart, opLog, calls>>

\* executor.py, line 53, with any answer that bears on the job's handler
Execute == ExecuteOn(EnvsFor(job.status))

\* executor.py, line 55: data_handler.update_job(job, updates)
Update ==
    /\ UNCHANGED <<fs, two, conn, jobdb,
                   killed, pair>>
    /\ pc = "update"
    /\ LET w == LoopWrite(ret.out)
       IN  IF w.called
           THEN \/ /\ data' = update_job(backend, data, job.id, w.updates)
                   /\ lastWrite' = [id |-> job.id, updates |-> w.updates,
                                    before |-> data[job.id],
                                    after |-> data'[job.id],
                                    raised |-> FALSE]
                   /\ pc' = "loop"
                \* session.commit() raises: the database refuses the write
                \/ /\ CommitMayFail(backend, w.updates)
                   /\ lastWrite' = [id |-> job.id, updates |-> w.updates,
                                    before |-> data[job.id],
                                    after |-> data[job.id],
                                    raised |-> TRUE]
                   /\ pc' = "raised"
                   /\ UNCHANGED data
           ELSE /\ pc' = "loop"
                /\ UNCHANGED <<data, lastWrite>>
    /\ UNCHANGED <<mode, strategy, backend, opened, gen, run, job, ret,
                   atStart, dispatched, opLog, calls>>

\* a mistaken exit: the store is closed at the end of the loop only, as
\* without a with statement
Exit_noclose ==
    /\ pc \in {"exit", "raised"}
    /\ pc' = IF pc = "exit" THEN "done" ELSE "crashed"
    /\ opened' = IF pc = "exit" THEN close(backend, opened, conn).session
                  ELSE opened
    /\ conn' = IF pc = "exit" THEN close(backend, opened, conn).conn ELSE conn
    /\ gen' = [gen EXCEPT !.active = FALSE]
    /\ UNCHANGED <<mode, strategy, backend, data, run, job, ret, lastWrite,
                   atStart, dispatched, opLog, calls, fs, two, jobdb,
                   killed, pair>>

\* DataHandler.__exit__: the with block is left, by the end of the loop or
\* by an exception of the loop body; the store strategy's close is called
Exit ==
    /\ UNCHANGED <<fs, two, jobdb,
                   killed, pair>>
    /\ conn' = close(backend, opened, conn).conn
    /\ pc \in {"exit", "raised"}
    /\ pc' = IF pc = "exit" THEN "done" ELSE "crashed"
    /\ opened' = close(backend, opened, conn).session
    /\ gen' = [gen EXCEPT !.active = FALSE]
    /\ UNCHANGED <<mode, strategy, backend, data, run, job, ret, lastWrite,
                   atStart, dispatched, opLog, calls>>

Next ==
    Enter \/ EnterFail \/ LoopNext \/ LoopEnd \/ Execute \/ Update \/ Exit

Spec == Init /\ [][Next]_vars

(***************************************************************************)
(* The store harness: the DataHandler interface called directly, as        *)
(* tests/02_dataHandler_test.py does: the with block entered and left,     *)
(* get_jobs with any filter, the generator advanced, update_job on the job *)
(* the caller holds.  One generator is walked at a time, and the with      *)
(* block is entered only while none is.                                    *)
(***************************************************************************)
\* the filters of get_jobs: a base flag, named unions, a union without a name
Filters == {NEW_, INCOMPLETE, COMPLETED, ALL, BitOr(NEW_, FAILED)}

\* the updates maps of update_job: empty, updatable keys only, the map of the
\* test (results is not updatable for the plain job), a parameter key
UpdateMaps ==
    {EmptyMap,
     [status |-> FINISHED, timeCompleted |-> "now"],
     [status |-> NEW_, results |-> "new value"],
     [status |-> FAILED, jobName |-> "renamed"]}

\* the attributes update_job may overwrite for the job kind of the store
UpdatableOf(b) == IF b = "sql" THEN updatable_attrs ELSE plain_updatable_attrs

InitStore ==
    /\ fs = NoFs
    /\ two = NoTwo
    /\ conn = NoConn
    /\ mode = "dummy"
    /\ strategy = "None"
    /\ backend \in {"dict", "sql"}
    /\ jobdb = Configured(backend)
    /\ killed = <<>>
    /\ pair = NoPair
    /\ data \in (IF backend = "dict" THEN {EmptyTable} ELSE SqlTables)
    /\ opened = FALSE
    /\ gen = NoGen
    /\ pc = "idle"
    /\ run = 0
    /\ job = NoJob
    /\ ret = NoRet
    /\ lastWrite = NoWrite
    /\ atStart = <<>>
    /\ dispatched = <<>>
    /\ opLog = <<>>
    /\ calls = 0

\* with DataHandler(config) as data_handler: __enter__
StoreOpen ==
    /\ UNCHANGED <<fs, two, jobdb,
                   killed, pair>>
    /\ conn' = [NoConn EXCEPT !.engine = (backend = "sql")]
    /\ pc = "idle"
    /\ ~gen.active
    /\ run < MaxRuns
    /\ run' = run + 1
    /\ data' = load_data(backend, data)
    /\ opened' = TRUE
    /\ gen' = [gen EXCEPT !.dirty = @ \/ (gen.started /\ data' # data)]
    /\ pc' = "open"
    /\ UNCHANGED <<mode, strategy, backend, job, ret, lastWrite, atStart,
                   dispatched, opLog, calls>>

\* the with block is left: __exit__
StoreClose ==
    /\ UNCHANGED <<fs, two, jobdb,
                   killed, pair>>
    /\ conn' = close(backend, opened, conn).conn
    /\ pc = "open"
    /\ pc' = "idle"
    /\ opened' = close(backend, opened, conn).session
    /\ UNCHANGED <<mode, strategy, backend, data, gen, run, job, ret,
                   lastWrite, atStart, dispatched, opLog, calls>>

\* data_handler.get_jobs(F): a generator, not yet started
StoreFetch ==
    /\ UNCHANGED <<fs, two, conn, jobdb,
                   killed, pair>>
    /\ ~gen.active
    /\ calls < MaxStoreCalls
    /\ calls' = calls + 1
    /\ \E F \in Filters :
          gen' = [NoGen EXCEPT !.active = TRUE, !.status = F]
    /\ UNCHANGED <<mode, strategy, backend, data, opened, pc, run, job, ret,
                   lastWrite, atStart, dispatched, opLog>>

\* next() on the generator.  Its first next() reads self.data, or tests
\* self.session, and raises when the store has not been opened.
StoreNext ==
    /\ UNCHANGED <<fs, two, conn, jobdb,
                   killed, pair>>
    /\ gen.active
    /\ IF ~gen.started /\ ~opened
       THEN /\ gen' = [gen EXCEPT !.active = FALSE, !.started = TRUE,
                                  !.raised = TRUE]
            /\ UNCHANGED <<data, job>>
       ELSE LET n == GenNext(backend, data, gen)
            IN  /\ data' = n.data
                /\ IF n.found # 0
                   THEN /\ gen' = [gen EXCEPT !.started = TRUE,
                                              !.rest = n.rest,
                                              !.yielded = Append(@, n.found)]
                        /\ job' = [NoJob EXCEPT !.id = n.found]
                   ELSE /\ gen' = [gen EXCEPT !.active = FALSE,
                                              !.started = TRUE,
                                              !.rest = <<>>]
                        /\ UNCHANGED job
    /\ UNCHANGED <<mode, strategy, backend, opened, pc, run, ret, lastWrite,
                   atStart, dispatched, opLog, calls>>

\* data_handler.update_job(job, updates) on the job the caller holds, or on a
\* job object of id 1 when it holds none.  The dict store subscripts
\* self.data, which is None until load_data; the relational store tests
\* self.session.
StoreUpdate ==
    /\ UNCHANGED <<fs, two, conn, jobdb,
                   killed, pair>>
    /\ calls < MaxStoreCalls
    /\ calls' = calls + 1
    /\ \E u \in UpdateMaps :
          LET id == IF job.id # 0 THEN job.id ELSE 1
          IN  IF ~opened
              THEN /\ lastWrite' = [id |-> id, updates |-> u,
                                    before |-> EmptyMap, after |-> EmptyMap,
                                    raised |-> TRUE]
                   /\ UNCHANGED <<data, gen>>
              ELSE /\ data' = update_job(backend, data, id, u)
                   /\ lastWrite' = [id |-> id, updates |-> u,
                                    before |-> data[id], after |-> data'[id],
                                    raised |-> FALSE]
                   /\ gen' = [gen EXCEPT
                                !.dirty = @ \/ (gen.started /\ data' # data)]
    /\ UNCHANGED <<mode, strategy, backend, opened, pc, run, job, ret,
                   atStart, dispatched, opLog>>

\* SQLStrategy.load_data raises part-way: at create_engine (no engine, no
\* session), or at create_all or in making the session (an engine, no
\* session).  __enter__ raises, so the with block is not entered.
StoreOpenFail ==
    /\ backend = "sql"
    /\ pc = "idle"
    /\ ~gen.active
    /\ run < MaxRuns
    /\ run' = run + 1
    /\ \E step \in {"create_engine", "create_all", "Session"} :
          conn' = [NoConn EXCEPT !.engine = (step # "create_engine")]
    /\ UNCHANGED <<mode, strategy, backend, data, opened, gen, pc, job, ret,
                   lastWrite, atStart, dispatched, opLog, calls, fs, two, jobdb,
                   killed, pair>>

\* close of the store called outside a with block: after __exit__ has
\* closed it, after an open that failed, or before any open
StrategyClose ==
    /\ pc = "idle"
    /\ calls < MaxStoreCalls
    /\ calls' = calls + 1
    /\ opened' = close(backend, opened, conn).session
    /\ conn' = close(backend, opened, conn).conn
    /\ UNCHANGED <<mode, strategy, backend, data, gen, pc, run, job, ret,
                   lastWrite, atStart, dispatched, opLog, fs, two, jobdb,
                   killed, pair>>

NextStore ==
    \/ StoreOpen
    \/ StoreOpenFail
    \/ StoreClose
    \/ StrategyClose
    \/ StoreFetch
    \/ StoreNext
    \/ StoreUpdate

SpecStore == InitStore /\ [][NextStore]_vars

\* C3: the loop does not branch on retcode.  Whenever a handler has returned
\* (retcode, updates) and the loop has gone on (to the next job, or to its
\* end), update_job was called for that job with exactly those updates, also
\* when retcode is not zero.
C3_WriteEveryReturn ==
    (ret.out.kind = "return" /\ pc \in {"loop", "exec", "exit", "done"}) =>
        /\ lastWrite.id = ret.id
        /\ lastWrite.updates = ret.out.updates

\* a handler returned a non-zero retcode with {status: FAILED}, the update was
\* written and the loop took the next job
C3_Witness ==
    /\ pc = "exec"
    /\ ret.out.kind = "return" /\ ret.out.retcode # 0
    /\ lastWrite.id = ret.id /\ lastWrite.id # job.id
    /\ lastWrite.updates = [status |-> FAILED]
    /\ StoredStatus(backend, data, ret.id) = FAILED

\* C4: a failure local to one job's handler never stops the loop.  When a run
\* in which a Start failed has ended, every job that was NEW when the run
\* opened the store has been dispatched.
C4_FailureIsolated ==
    (/\ pc \in {"done", "crashed"}
     /\ \E i \in 1..Len(dispatched) :
           dispatched[i].ran = "Start" /\ dispatched[i].failed) =>
        \A k \in DOMAIN atStart[run] :
            StoredStatus(backend, atStart[run], k) = NEW_ =>
                \E i \in 1..Len(dispatched) : dispatched[i].id = k

\* C5: in any sequence of runs, a job whose stored status is FINISHED, FAILED
\* or ARCHIVED has no stored status NEW or RUNNING afterwards.
C5_NoRegress ==
    [][\A j \in DOMAIN data \cap DOMAIN data' :
          Contains(StoredStatus(backend, data, j), COMPLETED) =>
              Contains(StoredStatus(backend, data', j), COMPLETED)]_vars

\* C6: with the dummy handlers a run moves every job it found NEW to RUNNING
\* and every job it found RUNNING to FINISHED and leaves the other jobs as
\* they were, and the second run leaves the jobs the first run found NEW
\* FINISHED.
C6_TwoRuns ==
    (mode = "dummy" /\ pc = "done") =>
        /\ \A j \in DOMAIN atStart[run] :
              LET was == StoredStatus(backend, atStart[run], j)
                  now == StoredStatus(backend, data, j)
              IN  /\ was = NEW_ => now = RUNNING
                  /\ was = RUNNING => now = FINISHED
                  /\ Contains(was, COMPLETED) => now = was
        /\ run = 2 =>
              \A j \in DOMAIN atStart[1] :
                  StoredStatus(backend, atStart[1], j) = NEW_ =>
                      StoredStatus(backend, data, j) = FINISHED

\* C9: when the scheduler query or the subprocess of CheckStatus fails for a
\* job, FAILED is written to the store for that job and the run goes on.
C9_QueryFailureReported ==
    (/\ ret.ran = "CheckStatus"
     /\ \E i \in 1..Len(ret.out.calls) : ret.out.calls[i] = "query"
     /\ ret.env.rc # 0) =>
        /\ pc \notin {"raised", "crashed"}
        /\ pc # "update" => StoredStatus(backend, data, ret.id) = FAILED

\* C10: on a failure at one of Start's steps (directory setup, parameter
\* building, parameter file, script rendering, transfer, submission) Start
\* returns a non-zero retcode with updates that hold status FAILED.
C10_StartFailureReturned ==
    (/\ ret.ran = "Start"
     /\ mode \in {"local", "scheduler"}
     /\ \/ ret.env.fail \in {"mkdir", "params", "paramfile", "script"}
        \/ ret.env.fail = "transfer" /\ ret.env.differ
        \/ ret.env.fail = "none" /\ ret.env.rc # 0) =>
        /\ ret.out.kind = "return"
        /\ ret.out.retcode # 0
        /\ "status" \in DOMAIN ret.out.updates
        /\ ret.out.updates.status = FAILED

\* C7: fetch_jobs(F) yields exactly the stored jobs whose status is a member
\* of F, each once.  When a generator has been walked to its end and the
\* store has not changed since its first next(), the ids it yielded are the
\* ids of the jobs whose status is in F, none of them twice.
C7_FetchExact ==
    (gen.started /\ ~gen.active /\ ~gen.raised /\ ~gen.dirty) =>
        LET Y == {gen.yielded[i] : i \in 1..Len(gen.yielded)}
        IN  /\ Y = {j \in DOMAIN data :
                      Contains(StoredStatus(backend, data, j), gen.status)}
            /\ Cardinality(Y) = Len(gen.yielded)

\* fetch_jobs(INCOMPLETE) on the dict store, which holds jobs of every base
\* status, has yielded the two RUNNING and the two NEW jobs
C7_Witness ==
    /\ backend = "dict"
    /\ gen.status = INCOMPLETE
    /\ gen.started /\ ~gen.active /\ ~gen.raised /\ ~gen.dirty
    /\ gen.yielded = <<2, 3, 4, 5>>
    /\ {StoredStatus(backend, data, j) : j \in DOMAIN data} = BaseStatuses

\* C8: update_job with updates that mix updatable and non-updatable keys
\* applies every updatable key and leaves every attribute named by a
\* non-updatable key as it was, in the dict store as in the relational one.
C8_PartialApply ==
    (lastWrite.id # 0 /\ ~lastWrite.raised) =>
        \A k \in DOMAIN lastWrite.updates :
            IF k \in UpdatableOf(backend)
            THEN lastWrite.after[k] =
                    (IF backend = "sql" THEN Bind(k, lastWrite.updates[k])
                     ELSE lastWrite.updates[k])
            ELSE IF k \in DOMAIN lastWrite.before
                 THEN lastWrite.after[k] = lastWrite.before[k]
                 ELSE k \notin DOMAIN lastWrite.after

\* C11: when every step of Start succeeds (no step fails, the submission
\* returns 0 and the scheduler assigned an identifier), Start returns retcode
\* 0 and updates that hold status RUNNING, timeStarted and that identifier.
C11_StartSuccess ==
    (/\ ret.ran = "Start"
     /\ mode \in {"local", "scheduler"}
     /\ ret.env.fail = "none" /\ ret.env.rc = 0 /\ ret.env.sid # "none") =>
        /\ ret.out.kind = "return"
        /\ ret.out.retcode = 0
        /\ {"status", "timeStarted", "schedulerJobId"}
              \subseteq DOMAIN ret.out.updates
        /\ ret.out.updates.status = RUNNING
        /\ ret.out.updates.schedulerJobId = ret.env.sid

\* C12: in Start, when the staging and execution directories differ and the
\* transfer fails, the action is aborted: the transfer is made once and the
\* script is not submitted.  A submission comes only after the parameter
\* file and the script were written and the transfer, if any, has succeeded.
C12_TransferFailureAborts ==
    (ret.ran = "Start" /\ mode \in {"local", "scheduler"}) =>
        LET c == ret.out.calls
            Before(step, i) == \E j \in 1..(i - 1) : c[j] = step
        IN  /\ (ret.env.differ /\ ret.env.fail = "transfer") =>
                  /\ ret.out.kind = "raise"
                  /\ Cardinality({i \in 1..Len(c) : c[i] = "transfer"}) = 1
                  /\ \A i \in 1..Len(c) : c[i] # "submit"
            /\ \A i \in 1..Len(c) :
                  c[i] = "submit" =>
                      /\ Before("paramfile", i) /\ Before("script", i)
                      /\ ret.env.differ => Before("transfer", i)
                      /\ ret.env.fail = "none"

\* the transfer of a NEW job failed: Start raised with the transfer as its
\* last step and the job is still NEW in the store
C12_Witness ==
    /\ pc = "raised"
    /\ ret.ran = "Start" /\ mode \in {"local", "scheduler"}
    /\ ret.env.differ /\ ret.env.fail = "transfer"
    /\ ret.out.calls # <<>>
    /\ ret.out.calls[Len(ret.out.calls)] = "transfer"
    /\ StoredStatus(backend, data, ret.id) = NEW_

C14_StillRunning ==
    (/\ ret.ran = "CheckStatus"
     /\ ret.sid \notin {"absent", "none"}
     /\ ret.env.rc = 0 /\ ret.env.fail # "config"
     /\ \/ mode = "scheduler" /\ ret.env.state \in {"pending", "running"}
        \/ mode = "local" /\ ret.env.state \in job_states("running")) =>
        /\ ret.out.kind = "return"
        /\ ret.out.retcode = 0
        /\ ret.out.updates = [status |-> RUNNING]
        /\ \A i \in 1..Len(ret.out.calls) : ret.out.calls[i] # "transfer"

\* a job the scheduler reports PENDING, with directories that differ: the
\* update written is {status: RUNNING} and the job is still RUNNING
C14_Witness ==
    /\ pc = "loop"
    /\ ret.ran = "CheckStatus" /\ mode = "local"
    /\ ret.sid = "sid1"
    /\ ret.env.state = "PENDING" /\ ret.env.differ
    /\ lastWrite.id = ret.id
    /\ lastWrite.updates = [status |-> RUNNING]
    /\ StoredStatus(backend, data, ret.id) = RUNNING

\* C15: when the scheduler reports the finished state and the transfer of
\* the result files fails, the CheckStatus call writes nothing: the stored
\* status of the job is still RUNNING, while the call is handled and after
\* the run has ended.
C15_FailedTransferKeepsRunning ==
    (/\ ret.ran = "CheckStatus" /\ mode \in {"local", "scheduler"}
     /\ ret.sid \notin {"absent", "none"}
     /\ ret.env.rc = 0
     /\ ret.env.state \in job_states("finished")
     /\ ret.env.differ /\ ret.env.fail = "transfer") =>
        /\ StoredStatus(backend, data, ret.id) = RUNNING
        /\ lastWrite.id # ret.id

\* the run has ended on the failed transfer of a finished job and the table
\* still holds the job as RUNNING
C15_Witness ==
    /\ pc = "crashed" /\ backend = "sql" /\ mode = "scheduler"
    /\ ret.ran = "CheckStatus"
    /\ ret.env.state = "COMPLETED"
    /\ ret.env.differ /\ ret.env.fail = "transfer"
    /\ ret.out.kind = "raise"
    /\ ret.out.calls = <<"query", "transfer">>
    /\ StoredStatus(backend, data, ret.id) = RUNNING

\* C16: CheckStatus never ends without a (retcode, updates) pair or an error
\* of its own: whatever state the scheduler reports, the handler does not
\* return None.
C16_StateMapped ==
    ret.ran = "CheckStatus" => ret.handler # "none"

(***************************************************************************)
(* The transfer harness: Transport.run of localTransportation.py called    *)
(* on a source directory holding any of the files, with any list of file   *)
(* names, the way Start and CheckStatus call it.                           *)
(***************************************************************************)
FileNames == <<"a.txt", "b.txt", "c.txt", "d.txt", "e.txt">>

Files == {FileNames[i] : i \in 1..MaxFiles}

\* the ways a caller names a file of the list: by a relative path or by a
\* path under from_destination
Entries == {FilePath(d, f) : d \in {"", "from"}, f \in Files}

RECURSIVE FileLists(_)
FileLists(n) ==
    IF n = 0 THEN {<<>>}
    ELSE FileLists(n - 1) \cup
         {Append(l, f) : l \in {x \in FileLists(n - 1) : Len(x) = n - 1},
                         f \in Entries}

InitTransport ==
    /\ mode = "local"
    /\ strategy = "None"
    /\ backend = "dict"
    /\ jobdb = Configured(backend)
    /\ killed = <<>>
    /\ pair = NoPair
    /\ data = EmptyTable
    /\ opened = FALSE
    /\ gen = NoGen
    /\ pc = "idle"
    /\ run = 0
    /\ job = NoJob
    /\ ret = NoRet
    /\ lastWrite = NoWrite
    /\ atStart = <<>>
    /\ dispatched = <<>>
    /\ opLog = <<>>
    /\ calls = 0
    /\ \E present \in SUBSET Files : fs = [NoFs EXCEPT !.src = present]
    /\ two = NoTwo
    /\ conn = NoConn

\* transport_strategy.run(file_list, from_destination, to_destination)
TransportRun ==
    /\ calls < MaxTransfers
    /\ calls' = calls + 1
    /\ \E file_list \in FileLists(MaxFiles) :
          LET r == Transport_run(file_list, fs.src, fs.dst)
          IN  fs' = [src |-> r.src, dst |-> r.dst, before |-> fs.src,
                     dstBefore |-> fs.dst,
                     list |-> file_list, retcode |-> r.retcode,
                     results |-> r.results, called |-> TRUE]
    /\ UNCHANGED <<mode, strategy, backend, data, opened, gen, pc, run, job,
                   ret, lastWrite, atStart, dispatched, opLog, two, conn, jobdb,
                   killed, pair>>

NextTransport == TransportRun

SpecTransport == InitTransport /\ [][NextTransport]_vars

\* C17: a transfer that returns a retcode other than 0 has moved no file:
\* the source directory holds what it held before the call.
C17_NoPartialMove ==
    (fs.called /\ fs.retcode # 0) => fs.src = fs.before

(***************************************************************************)
(* Two controllers on one relational Job table: two processes running      *)
(* executor.py against the same database, each with its own Operator and   *)
(* its own session.  A session holds the rows as its SELECT loaded them    *)
(* (view); its commit expires what it holds (stale), and an expired row is *)
(* read again from the table when the job object is next used.  The        *)
(* scheduler gives each submission an id of its own.                       *)
(***************************************************************************)
Count(seq, x) == Cardinality({i \in 1..Len(seq) : seq[i] = x})

\* the answers the collaborators give controller c for a job of this status
TwoEnvs(c, status) ==
    IF status = NEW_
    THEN {[DefaultEnv EXCEPT !.differ = TRUE,
                             !.sid = IF c = 1 THEN "sid1" ELSE "sid2"]}
    ELSE IF status = RUNNING
    THEN {[DefaultEnv EXCEPT !.differ = TRUE, !.state = st] :
             st \in {"COMPLETED", "running", "RUNNING"}}
    ELSE {DefaultEnv}

\* the row of job id as the session of controller c reads it
Seen(c, id) ==
    IF id \in two.ctl[c].stale THEN data[id] ELSE two.ctl[c].view[id]

\* SQLStrategy.update_job in the session of controller c: setattr for each
\* updatable key, then commit, which writes the attributes whose value is
\* not the one the session had loaded
SessionUpdateJob(d, seen, id, update_dict) ==
    [d EXCEPT ![id] =
        [col \in DOMAIN d[id] |->
            IF /\ col \in DOMAIN update_dict \cap updatable_attrs
               /\ Bind(col, update_dict[col]) # seen[col]
            THEN Bind(col, update_dict[col])
            ELSE d[id][col]]]

InitTwo ==
    /\ mode \in {"local", "scheduler"}
    /\ strategy = "None"
    /\ backend = "sql"
    /\ jobdb = Configured(backend)
    /\ killed = <<>>
    /\ pair = NoPair
    /\ data \in SqlTables
    /\ opened = FALSE
    /\ gen = NoGen
    /\ pc = "idle"
    /\ run = 0
    /\ job = NoJob
    /\ ret = NoRet
    /\ lastWrite = NoWrite
    /\ atStart = <<>>
    /\ dispatched = <<>>
    /\ opLog = <<>>
    /\ calls = 0
    /\ fs = NoFs
    /\ two = NoTwo
    /\ conn = NoConn

\* executor.py, lines 44-49, in process c
CEnter(c) ==
    /\ two.ctl[c].pc = "idle"
    /\ two' = [two EXCEPT
                 !.ctl[c].pc = "loop",
                 !.ctl[c].gen = [NoGen EXCEPT !.active = TRUE,
                                                   !.status = INCOMPLETE]]
    /\ UNCHANGED <<mode, strategy, backend, data, opened, gen, pc, run, job,
                   ret, lastWrite, atStart, dispatched, opLog, calls, fs,
                   conn, jobdb,
                   killed, pair>>

\* executor.py, line 51, in process c: the next job of its generator
CLoopNext(c) ==
    /\ two.ctl[c].pc = "loop"
    /\ LET g == two.ctl[c].gen
           n == GenNext(backend, data, g)
       IN  /\ n.found # 0
           /\ data' = n.data
           /\ two' = [two EXCEPT
                 !.ctl[c].pc = "exec",
                 !.ctl[c].id = n.found,
                 !.ctl[c].view = IF g.started THEN @ ELSE data,
                 !.ctl[c].stale = IF g.started THEN @ ELSE {},
                 !.ctl[c].gen = [g EXCEPT !.started = TRUE,
                                              !.rest = n.rest,
                                              !.yielded = Append(@, n.found)]]
    /\ UNCHANGED <<mode, strategy, backend, opened, gen, pc, run, job, ret,
                   lastWrite, atStart, dispatched, opLog, calls, fs,
                   conn, jobdb,
                   killed, pair>>

\* executor.py, line 51, in process c: its generator is exhausted
CLoopEnd(c) ==
    /\ two.ctl[c].pc = "loop"
    /\ LET g == two.ctl[c].gen
           n == GenNext(backend, data, g)
       IN  /\ n.found = 0
           /\ two' = [two EXCEPT
                 !.ctl[c].pc = "exit",
                 !.ctl[c].gen = [g EXCEPT !.active = FALSE,
                                              !.started = TRUE]]
    /\ UNCHANGED <<mode, strategy, backend, data, opened, gen, pc, run, job,
                   ret, lastWrite, atStart, dispatched, opLog, calls, fs,
                   conn, jobdb,
                   killed, pair>>

\* executor.py, line 53, in process c
CExecute(c) ==
    /\ two.ctl[c].pc = "exec"
    /\ LET id == two.ctl[c].id
           row == Seen(c, id)
           j == [id |-> id, status |-> process_result_value(row.status),
                 schedulerJobId |-> row.schedulerJobId]
       IN  \E env \in TwoEnvs(c, j.status) :
              LET r == Operator_execute(mode, two.ctl[c].strategy, j, env)
              IN  two' = [two EXCEPT
                    !.ctl[c].pc =
                        IF r.out.kind = "return" THEN "update" ELSE "raised",
                    !.ctl[c].strategy = r.strategy,
                    !.ctl[c].view = [@ EXCEPT ![id] = row],
                    !.ctl[c].stale = @ \ {id},
                    !.ctl[c].ret =
                        [id |-> id, status |-> j.status,
                         sid |-> j.schedulerJobId, ran |-> r.ran,
                         handler |-> r.handler, env |-> env, out |-> r.out],
                    !.submits[id] = @ + Count(r.out.calls, "submit"),
                    !.transfers[id] =
                        @ + (IF r.ran = "CheckStatus"
                             THEN Count(r.out.calls, "transfer") ELSE 0)]
    /\ UNCHANGED <<mode, strategy, backend, data, opened, gen, pc, run, job,
                   ret, lastWrite, atStart, dispatched, opLog, calls, fs,
                   conn, jobdb,
                   killed, pair>>

\* executor.py, line 55, in process c
CUpdate(c) ==
    /\ two.ctl[c].pc = "update"
    /\ LET id == two.ctl[c].id
           w == LoopWrite(two.ctl[c].ret.out)
           commits == w.called /\ DOMAIN w.updates # {}
       IN  /\ data' = IF commits
                      THEN SessionUpdateJob(data, two.ctl[c].view[id], id,
                                            w.updates)
                      ELSE data
           /\ two' = [two EXCEPT
                 !.ctl[c].pc = "loop",
                 !.ctl[c].stale = IF commits THEN DOMAIN data ELSE @]
    /\ UNCHANGED <<mode, strategy, backend, opened, gen, pc, run, job, ret,
                   lastWrite, atStart, dispatched, opLog, calls, fs,
                   conn, jobdb,
                   killed, pair>>

\* DataHandler.__exit__ in process c
CExit(c) ==
    /\ two.ctl[c].pc \in {"exit", "raised"}
    /\ two' = [two EXCEPT
                 !.ctl[c].pc = IF @ = "exit" THEN "done" ELSE "crashed",
                 !.ctl[c].gen = [@ EXCEPT !.active = FALSE]]
    /\ UNCHANGED <<mode, strategy, backend, data, opened, gen, pc, run, job,
                   ret, lastWrite, atStart, dispatched, opLog, calls, fs,
                   conn, jobdb,
                   killed, pair>>

NextTwo ==
    \E c \in Controllers :
        \/ CEnter(c)
        \/ CLoopNext(c)
        \/ CLoopEnd(c)
        \/ CExecute(c)
        \/ CUpdate(c)
        \/ CExit(c)

SpecTwo == InitTwo /\ [][NextTwo]_vars

\* C18: the store keeps no trace of a fetch.  The step in which a controller
\* takes the first job of its SELECT leaves the table as it was, so the job
\* it holds is still among the rows the INCOMPLETE filter gives any other
\* controller.
C18_FetchLeavesNoMark ==
    [][\A c \in Controllers :
          (/\ two.ctl[c].pc = "loop" /\ two'.ctl[c].pc = "exec"
           /\ ~two.ctl[c].gen.started) =>
             /\ data' = data
             /\ \E i \in 1..Len(SqlSelect(data', INCOMPLETE)) :
                   SqlSelect(data', INCOMPLETE)[i] = two'.ctl[c].id]_vars

\* both controllers have ended their run without an error; between them one
\* job was submitted to the scheduler twice and the result files of another
\* were transferred twice
C18_Witness ==
    /\ \A c \in Controllers : two.ctl[c].pc = "done"
    /\ \E id \in 1..MaxRows : two.submits[id] = 2
    /\ \E id \in 1..MaxRows : two.transfers[id] = 2

\* C19: with a mode that has no handlers the construction of the Operator
\* raises and the run ends there: the store is never opened, no generator
\* is made, no job is fetched, no handler is run and nothing is written.
C19_UnknownModeFatal ==
    mode \notin Modes =>
        /\ pc \in {"idle", "crashed"}
        /\ ~opened
        /\ gen = NoGen
        /\ job = NoJob
        /\ ret = NoRet
        /\ dispatched = <<>>
        /\ lastWrite = NoWrite
        /\ atStart = <<>>

\* two runs were started under the mode "not_implemented"; both ended at
\* the construction of the Operator and the table was not opened
C19_Witness ==
    /\ mode = "not_implemented"
    /\ Operator_init(mode).error = "NotImplementedError"
    /\ pc = "crashed" /\ run = 2
    /\ backend = "sql"
    /\ ~opened /\ dispatched = <<>> /\ lastWrite = NoWrite

\* C20: an update_job made while the with block is not entered, before the
\* store was opened or after it was closed, raises and leaves the data as
\* it was, for the dict store and for the relational store alike.
C20_ClosedStoreRejects ==
    [][(pc = "idle" /\ lastWrite' # lastWrite) =>
           (lastWrite'.raised /\ data' = data)]_vars

\* C21: close on the store never raises, whatever state the store is in:
\* open, never opened, opened only part-way, or already closed.
C21_CloseSafe ==
    conn.closes > 0 => ~conn.raised

C23_OneBaseStatus ==
    /\ \A id \in DOMAIN data :
          StoredStatus(backend, data, id) \in BaseStatuses
    /\ (ret.out.kind = "return" /\ "status" \in DOMAIN ret.out.updates) =>
          ret.out.updates.status \in BaseStatuses

\* CheckStatus has returned FINISHED with the result references, the update
\* is written and the table holds the job as FINISHED
C23_Witness ==
    /\ pc = "loop" /\ backend = "sql" /\ mode = "local"
    /\ ret.ran = "CheckStatus"
    /\ ret.out.kind = "return"
    /\ DOMAIN ret.out.updates = {"status", "results"}
    /\ ret.out.updates.status = FINISHED
    /\ lastWrite.id = ret.id /\ ~lastWrite.raised
    /\ StoredStatus(backend, data, ret.id) = FINISHED

\* C24: every key of an updates map a handler returns, whatever its retcode,
\* is an updatable attribute of the job kind of the store.
C24_KeysUpdatable ==
    ret.out.kind = "return" =>
        DOMAIN ret.out.updates \subseteq UpdatableOf(backend)

\* C25: update_job with an empty updates map on an open store raises
\* nothing and leaves every attribute of every job as it was.
C25_EmptyUpdateNoOp ==
    [][(opened /\ lastWrite' # lastWrite /\ DOMAIN lastWrite'.updates = {}) =>
           (~lastWrite'.raised /\ data' = data)]_vars

\* an empty update was made on the open relational store and the row is
\* what it was before the call
C25_Witness ==
    /\ backend = "sql" /\ pc = "open" /\ opened
    /\ lastWrite.id # 0
    /\ DOMAIN lastWrite.updates = {}
    /\ ~lastWrite.raised
    /\ lastWrite.before = lastWrite.after
    /\ lastWrite.after = data[lastWrite.id]

(***************************************************************************)
(* The Status harness: the membership test, __str__ and get_flag called    *)
(* directly, as tests/01_constants_test.py does.  opLog keeps the calls:   *)
(*   op "in"     member in flag                      -> isin               *)
(*   op "str"    str(member), then get_flag of that  -> str, parsed        *)
(*   op "parse"  get_flag(name)                      -> parsed             *)
(***************************************************************************)
Names == UNION {{f[1], f[2], f[3]} : f \in NameForms}

NoCheck == [op |-> "none", member |-> 0, flag |-> 0, name |-> "",
            isin |-> FALSE, str |-> "", parsed |-> 0]

InitStatus ==
    /\ mode = "dummy"
    /\ strategy = "None"
    /\ backend = "dict"
    /\ jobdb = Configured(backend)
    /\ killed = <<>>
    /\ pair = NoPair
    /\ data = EmptyTable
    /\ opened = FALSE
    /\ gen = NoGen
    /\ pc = "idle"
    /\ run = 0
    /\ job = NoJob
    /\ ret = NoRet
    /\ lastWrite = NoWrite
    /\ atStart = <<>>
    /\ dispatched = <<>>
    /\ opLog = <<>>
    /\ calls = 0
    /\ fs = NoFs
    /\ two = NoTwo
    /\ conn = NoConn

\* Status_flag in Status_combo
StatusIn ==
    /\ Len(opLog) < MaxChecks
    /\ \E s \in BaseStatuses, u \in NamedStatuses :
          opLog' = Append(opLog, [NoCheck EXCEPT !.op = "in", !.member = s,
                                                 !.flag = u,
                                                 !.isin = Contains(s, u)])
    /\ UNCHANGED <<mode, strategy, backend, data, opened, gen, pc, run, job,
                   ret, lastWrite, atStart, dispatched, calls, fs, two, conn, jobdb,
                   killed, pair>>

\* Status_flag.__str__(), and Status.get_flag of the string it gave
StatusToStr ==
    /\ Len(opLog) < MaxChecks
    /\ \E s \in NamedStatuses :
          opLog' = Append(opLog, [NoCheck EXCEPT !.op = "str", !.member = s,
                                                 !.str = StatusStr(s),
                                                 !.parsed =
                                                     get_flag(StatusStr(s))])
    /\ UNCHANGED <<mode, strategy, backend, data, opened, gen, pc, run, job,
                   ret, lastWrite, atStart, dispatched, calls, fs, two, conn, jobdb,
                   killed, pair>>

\* Status.get_flag(Status_str)
StatusParse ==
    /\ Len(opLog) < MaxChecks
    /\ \E name \in Names :
          opLog' = Append(opLog, [NoCheck EXCEPT !.op = "parse",
                                                 !.name = name,
                                                 !.parsed = get_flag(name)])
    /\ UNCHANGED <<mode, strategy, backend, data, opened, gen, pc, run, job,
                   ret, lastWrite, atStart, dispatched, calls, fs, two, conn, jobdb,
                   killed, pair>>

NextStatus == StatusIn \/ StatusToStr \/ StatusParse

SpecStatus == InitStatus /\ [][NextStatus]_vars

\* C26: for a base status s and a named union u, `s in u` is true exactly
\* when s is among the components u is built from.
C26_MembershipByComponents ==
    LET Components(u) ==
            CASE u = INCOMPLETE -> {NEW_, RUNNING}
              [] u = COMPLETED -> {FINISHED, FAILED, ARCHIVED}
              [] u = CURRENT -> {NEW_, RUNNING, FINISHED, FAILED}
              [] u = ALL -> {NEW_, RUNNING, FINISHED, FAILED, ARCHIVED}
    IN  \A i \in 1..Len(opLog) :
            (/\ opLog[i].op = "in"
             /\ opLog[i].flag \in {INCOMPLETE, COMPLETED, CURRENT, ALL}) =>
                (opLog[i].isin <=> opLog[i].member \in Components(opLog[i].flag))

\* FINISHED in COMPLETED was found true, then ARCHIVED in CURRENT false
C26_Witness ==
    /\ Len(opLog) = 2
    /\ opLog[1].op = "in" /\ opLog[1].member = FINISHED
    /\ opLog[1].flag = COMPLETED /\ opLog[1].isin
    /\ opLog[2].op = "in" /\ opLog[2].member = ARCHIVED
    /\ opLog[2].flag = CURRENT /\ ~opLog[2].isin

\* C27: the string of a base status is its name in lower case and get_flag
\* of that string gives the status back; get_flag gives the same answer for
\* every spelling of a name, whatever the case of its letters.
C27_RoundTrip ==
    LET LowerName(s) ==
            CASE s = NEW_ -> "new" [] s = RUNNING -> "running"
              [] s = FINISHED -> "finished" [] s = FAILED -> "failed"
              [] s = ARCHIVED -> "archived"
        SameName(a, b) == \E f \in NameForms : \E i, j \in 1..3 :
                              f[i] = a /\ f[j] = b
    IN  /\ \A i \in 1..Len(opLog) :
              (opLog[i].op = "str" /\ opLog[i].member \in BaseStatuses) =>
                  /\ opLog[i].str = LowerName(opLog[i].member)
                  /\ opLog[i].parsed = opLog[i].member
        /\ \A i, j \in 1..Len(opLog) :
              (/\ opLog[i].op = "parse" /\ opLog[j].op = "parse"
               /\ SameName(opLog[i].name, opLog[j].name)) =>
                  opLog[i].parsed = opLog[j].parsed

\* str(FAILED) gave "failed" and get_flag gave FAILED back; get_flag("Failed")
\* gave FAILED too
C27_Witness ==
    /\ Len(opLog) = 2
    /\ opLog[1].op = "str" /\ opLog[1].member = FAILED
    /\ opLog[1].str = "failed" /\ opLog[1].parsed = FAILED
    /\ opLog[2].op = "parse" /\ opLog[2].name = "Failed"
    /\ opLog[2].parsed = FAILED

\* C28: get_flag of a name that is a union, or that is no member, raises:
\* it gives no status.
C28_UnionNameRejected ==
    \A i \in 1..Len(opLog) :
        (/\ opLog[i].op = "parse"
         /\ \A f \in {<<"new", "New", "NEW">>,
                      <<"running", "Running", "RUNNING">>,
                      <<"finished", "Finished", "FINISHED">>,
                      <<"failed", "Failed", "FAILED">>,
                      <<"archived", "Archived", "ARCHIVED">>} :
               \A k \in 1..3 : f[k] # opLog[i].name) =>
            opLog[i].parsed = 0

(***************************************************************************)
(* The DataHandler harness: DataHandler(config) on a configuration that    *)
(* names any jobdb type in any spelling, then the with block, get_jobs and *)
(* the generator as in the store harness.                                  *)
(***************************************************************************)
DbTypes == UNION {{f[1], f[2], f[3]} : f \in TypeForms}

InitHandler ==
    /\ mode = "dummy"
    /\ strategy = "None"
    /\ backend = "none"
    /\ jobdb \in [type : DbTypes, raised : {FALSE}]
    /\ killed = <<>>
    /\ pair = NoPair
    /\ data = EmptyTable
    /\ opened = FALSE
    /\ gen = NoGen
    /\ pc = "new"
    /\ run = 0
    /\ job = NoJob
    /\ ret = NoRet
    /\ lastWrite = NoWrite
    /\ atStart = <<>>
    /\ dispatched = <<>>
    /\ opLog = <<>>
    /\ calls = 0
    /\ fs = NoFs
    /\ two = NoTwo
    /\ conn = NoConn

\* DataHandler(config): __init__ picks the store strategy and makes it
DataHandlerInit ==
    /\ pc = "new"
    /\ LET s == get_strategy(strategy_type(jobdb.type))
       IN  IF s = "NotImplementedError"
           THEN /\ pc' = "failed"
                /\ jobdb' = [jobdb EXCEPT !.raised = TRUE]
                /\ UNCHANGED <<backend, data>>
           ELSE /\ pc' = "idle"
                /\ backend' = s
                /\ data' \in (IF s = "dict" THEN {EmptyTable} ELSE SqlTables)
                /\ UNCHANGED jobdb
    /\ UNCHANGED <<mode, strategy, opened, gen, run, job, ret, lastWrite,
                   atStart, dispatched, opLog, calls, fs, two, conn, killed,
                   pair>>

NextHandler ==
    \/ DataHandlerInit
    \/ StoreOpen
    \/ StoreClose
    \/ (pc \in {"idle", "open"} /\ StoreFetch)
    \/ (pc \in {"idle", "open"} /\ StoreNext)

SpecHandler == InitHandler /\ [][NextHandler]_vars

\* C29: the configured jobdb type, in any case of its letters, selects the
\* store: dummy or dictofdict the in-memory store, sqlite, mysql or sql the
\* relational store; on any other type DataHandler(config) raises
\* NotImplementedError, and then no store is made, opened or read.
C29_BackendByType ==
    LET Spelt(names) ==
            UNION {{f[1], f[2], f[3]} : f \in {g \in TypeForms : g[1] \in names}}
    IN  pc # "new" =>
          /\ jobdb.type \in Spelt({"dummy", "dictofdict"}) =>
                (backend = "dict" /\ ~jobdb.raised)
          /\ jobdb.type \in Spelt({"sqlite", "mysql", "sql"}) =>
                (backend = "sql" /\ ~jobdb.raised)
          /\ jobdb.type \notin Spelt({"dummy", "dictofdict", "sqlite",
                                      "mysql", "sql"}) =>
                /\ jobdb.raised /\ pc = "failed"
                /\ backend = "none"
                /\ ~opened /\ run = 0
                /\ gen = NoGen /\ job = NoJob

\* the type "MYSQL" gave the relational store, which was opened and has
\* yielded a job
C29_Witness ==
    /\ jobdb.type = "MYSQL" /\ backend = "sql"
    /\ pc = "open" /\ opened
    /\ gen.yielded # <<>>

\* C30: when the scheduler reports the finished state and the transfer, if
\* one is made, succeeds, CheckStatus returns retcode 0 with status FINISHED
\* and the references to the result files.
C30_FinishedReturnsResults ==
    (/\ ret.ran = "CheckStatus" /\ mode \in {"local", "scheduler"}
     /\ ret.sid \notin {"absent", "none"}
     /\ ret.env.rc = 0 /\ ret.env.fail = "none"
     /\ ret.env.state \in job_states("finished")) =>
        /\ ret.out.kind = "return"
        /\ ret.out.retcode = 0
        /\ DOMAIN ret.out.updates = {"status", "results"}
        /\ ret.out.updates.status = FINISHED

(***************************************************************************)
(* The controller whose process may die: executor.py run MaxRuns times,    *)
(* where a run may end at any point of the loop without __exit__ being     *)
(* called.  SQLStrategy.update_job is followed in its two steps: the       *)
(* setattr loop, which changes the job object of the session only, and     *)
(* session.commit(), which writes the row in one transaction.  What the    *)
(* process held in memory (the data of the dict store, the session) is     *)
(* gone with it.                                                           *)
(***************************************************************************)
InitKill ==
    /\ mode \in Modes
    /\ strategy = "None"
    /\ backend \in {"dict", "sql"}
    /\ jobdb = Configured(backend)
    /\ data \in (IF backend = "dict" THEN {EmptyTable} ELSE SqlTables)
    /\ opened = FALSE
    /\ gen = NoGen
    /\ pc = "idle"
    /\ run = 0
    /\ job = NoJob
    /\ ret = NoRet
    /\ lastWrite = NoWrite
    /\ atStart = <<>>
    /\ dispatched = <<>>
    /\ opLog = <<>>
    /\ calls = 0
    /\ fs = NoFs
    /\ two = NoTwo
    /\ conn = NoConn
    /\ killed = <<>>
    /\ pair = NoPair

\* update_job up to its commit.  The dict store updates self.data at once;
\* the relational store returns on an empty update_dict and otherwise sets
\* the updatable attributes on the job object, which the table does not see
\* until the commit.
UpdateSetattr ==
    /\ pc = "update"
    /\ LET w == LoopWrite(ret.out)
           atOnce == backend = "dict" \/ DOMAIN w.updates = {}
       IN  /\ data' = IF atOnce
                      THEN update_job(backend, data, job.id, w.updates)
                      ELSE data
           /\ lastWrite' = [id |-> job.id, updates |-> w.updates,
                            before |-> data[job.id], after |-> data'[job.id],
                            raised |-> FALSE]
           /\ pc' = IF atOnce THEN "loop" ELSE "commit"
    /\ UNCHANGED <<mode, strategy, backend, opened, gen, run, job, ret,
                   atStart, dispatched, opLog, calls, fs, two, conn, jobdb,
                   killed, pair>>

\* a mistaken commit: each attribute is written in a transaction of its own
UpdateCommit_perkey ==
    /\ pc = "commit"
    /\ LET target == update_job(backend, data, job.id, lastWrite.updates)
           left == {c \in DOMAIN data[job.id] :
                       data[job.id][c] # target[job.id][c]}
       IN  IF left = {}
           THEN pc' = "loop" /\ UNCHANGED <<data, lastWrite>>
           ELSE \E c \in left :
                   /\ data' = [data EXCEPT ![job.id][c] = target[job.id][c]]
                   /\ lastWrite' = [lastWrite EXCEPT !.after = data'[job.id]]
                   /\ pc' = IF left = {c} THEN "loop" ELSE "commit"
    /\ UNCHANGED <<mode, strategy, backend, opened, gen, run, job, ret,
                   atStart, dispatched, opLog, calls, fs, two, conn, jobdb,
                   killed, pair>>

\* SQLStrategy.update_job, line 220: session.commit() writes the row
UpdateCommit ==
    /\ pc = "commit"
    /\ data' = update_job(backend, data, job.id, lastWrite.updates)
    /\ lastWrite' = [lastWrite EXCEPT !.after = data'[job.id]]
    /\ pc' = "loop"
    /\ UNCHANGED <<mode, strategy, backend, opened, gen, run, job, ret,
                   atStart, dispatched, opLog, calls, fs, two, conn, jobdb,
                   killed, pair>>

\* session.commit() raises: the database refuses the write
UpdateCommitFail ==
    /\ pc = "commit"
    /\ lastWrite' = [lastWrite EXCEPT !.raised = TRUE]
    /\ pc' = "raised"
    /\ UNCHANGED <<mode, strategy, backend, data, opened, gen, run, job, ret,
                   atStart, dispatched, opLog, calls, fs, two, conn, jobdb,
                   killed, pair>>

\* the process dies where the loop stands.  Nothing of executor.py runs any
\* more: no update_job, no __exit__, no close.  The table keeps what was
\* committed; self.data of the dict store is lost.
Kill ==
    /\ pc \in {"loop", "exec", "update", "commit", "raised", "exit"}
    /\ killed' = Append(killed,
          [run |-> run, at |-> pc, id |-> job.id,
           before |-> IF job.id = 0 THEN EmptyMap
                      ELSE IF lastWrite.id = job.id THEN lastWrite.before
                      ELSE data[job.id],
           updates |-> IF ret.id = job.id /\ ret.out.kind = "return"
                       THEN ret.out.updates ELSE EmptyMap])
    /\ pc' = "killed"
    /\ data' = IF backend = "dict" THEN EmptyTable ELSE data
    /\ opened' = FALSE
    /\ gen' = [gen EXCEPT !.active = FALSE]
    /\ conn' = [conn EXCEPT !.engine = FALSE]
    /\ UNCHANGED <<mode, strategy, backend, run, job, ret, lastWrite, atStart,
                   dispatched, opLog, calls, fs, two, jobdb, pair>>

\* the main answers of the collaborators: all goes well, the transfer or
\* the submission of Start fails, the job is still running, the
\* configuration names no strategy, the query fails
MainEnvs(status) ==
    IF status = NEW_
    THEN {DefaultEnv, [DefaultEnv EXCEPT !.rc = 1],
          [DefaultEnv EXCEPT !.fail = "transfer", !.differ = TRUE]}
    ELSE IF status = RUNNING
    THEN {DefaultEnv, [DefaultEnv EXCEPT !.state = "running"],
          [DefaultEnv EXCEPT !.fail = "config"], [DefaultEnv EXCEPT !.rc = 1]}
    ELSE {DefaultEnv}

\* executor.py, line 53, with one of the main answers
ExecuteMain == ExecuteOn(MainEnvs(job.status))

NextKill ==
    \/ Enter
    \/ LoopNext
    \/ LoopEnd
    \/ ExecuteMain
    \/ UpdateSetattr
    \/ UpdateCommit
    \/ UpdateCommitFail
    \/ Exit
    \/ Kill

SpecKill == InitKill /\ [][NextKill]_vars

\* two records hold the same attributes with the same values; the id the
\* dict store adds to a record when it fetches it is not an attribute
SameRecord(r1, r2) ==
    /\ DOMAIN r1 \ {"id"} = DOMAIN r2 \ {"id"}
    /\ \A key \in DOMAIN r1 \ {"id"} : r1[key] = r2[key]

\* the record update_job makes of a record
Applied(record, update_dict) ==
    update_job(backend, (1 :> record), 1, update_dict)[1]

C32_HandlerFrame ==
    [][/\ pc = "exec" => data' = data
       /\ (pc = "update" /\ pc' = "loop") =>
             data' = update_job(backend, data, job.id, ret.out.updates)]_vars

\* Start has returned {status: RUNNING, ...} for a row of the Job table and
\* update_job has not been called yet: the table still holds the job as NEW
C32_Witness ==
    /\ pc = "update" /\ backend = "sql" /\ mode = "scheduler"
    /\ ret.ran = "Start" /\ ret.id = job.id
    /\ ret.out.kind = "return"
    /\ ret.out.updates.status = RUNNING
    /\ StoredStatus(backend, data, job.id) = NEW_
    /\ lastWrite.id # job.id

\* jobModels/job_efi_web_orm.py: Job._parameter_attrs
parameter_attrs == {"job_id", "jobName"}

\* C33: parameter attributes are immutable once a job is created.  After
\* any sequence of controller runs every parameter attribute of every job
\* is what it was in the store the first run opened: it holds the same
\* value, and a record that had no such attribute has none.
C33_ParametersKept ==
    atStart # <<>> =>
        \A id \in DOMAIN data :
            \A a \in parameter_attrs :
                IF a \in DOMAIN atStart[1][id]
                THEN a \in DOMAIN data[id] /\ data[id][a] = atStart[1][id][a]
                ELSE a \notin DOMAIN data[id]

\* two runs have ended; a row was started in the first and marked FAILED in
\* the second, and its jobName is the one it was created with
C33_Witness ==
    /\ backend = "sql" /\ mode = "scheduler"
    /\ pc = "done" /\ run = 2
    /\ \E id \in DOMAIN data :
          /\ atStart[1][id].status = "new"
          /\ data[id].status = "failed"
          /\ data[id].timeStarted = "now"
          /\ data[id].jobName = atStart[1][id].jobName

(***************************************************************************)
(* The controller under fairness: executor.py is one sequential process,   *)
(* so a step that can be taken is taken in the end.                        *)
(***************************************************************************)
NextFair ==
    \/ Enter
    \/ EnterFail
    \/ LoopNext
    \/ LoopEnd
    \/ ExecuteMain
    \/ Update
    \/ Exit

SpecFair == Init /\ [][NextFair]_vars /\ WF_vars(NextFair)

\* C34: each controller run terminates.  The sequence fetch_jobs returns
\* yields no job twice and no more jobs than the store holds, although
\* update_job changes the store while it is iterated, so no job is given to
\* a handler twice in a run; and a run that has entered its loop comes to
\* its end, by the end of the loop or by an exception.
C34_RunTerminates ==
    /\ [](/\ \A i, j \in 1..Len(gen.yielded) :
                i # j => gen.yielded[i] # gen.yielded[j]
          /\ Len(gen.yielded) <= Cardinality(DOMAIN data)
          /\ \A i, j \in 1..Len(dispatched) :
                i # j => dispatched[i].id # dispatched[j].id)
    /\ \A r \in 1..MaxRuns :
          (run = r /\ pc = "loop") ~> (run = r /\ pc \in {"done", "crashed"})

\* a run over the dict store has ended: the generator has yielded the four
\* incomplete jobs once each, each was dispatched once, and the records of
\* all four were changed while the generator was walked
C34_Witness ==
    /\ backend = "dict" /\ mode = "dummy" /\ pc = "done"
    /\ gen.yielded = <<2, 3, 4, 5>>
    /\ Len(dispatched) = 4
    /\ \A id \in {2, 3, 4, 5} : data[id].status # atStart[run][id].status

(***************************************************************************)
(* The two stores side by side: a relational store and an in-memory store  *)
(* that start from the same jobs, those of DictOfDictStrategy.load_data,   *)
(* and are given the same calls: get_jobs with a filter, next() on the     *)
(* generators, update_job with the same updates on a job the caller got    *)
(* from a fetch.  Both stores are open throughout.                         *)
(***************************************************************************)
\* the Job table that holds the jobs of DictOfDictStrategy.load_data
SeedTable == [id \in DOMAIN DictSeed |-> SqlRow(DictSeed[id].status, "none")]

InitPair ==
    /\ fs = NoFs
    /\ two = NoTwo
    /\ conn = [NoConn EXCEPT !.engine = TRUE]
    /\ mode = "dummy"
    /\ strategy = "None"
    /\ backend = "sql"
    /\ jobdb = Configured(backend)
    /\ killed = <<>>
    /\ pair = [NoPair EXCEPT !.data = load_data("dict", EmptyTable)]
    /\ data = SeedTable
    /\ opened = TRUE
    /\ gen = NoGen
    /\ pc = "open"
    /\ run = 1
    /\ job = NoJob
    /\ ret = NoRet
    /\ lastWrite = NoWrite
    /\ atStart = <<>>
    /\ dispatched = <<>>
    /\ opLog = <<>>
    /\ calls = 0

\* get_jobs(F) on both stores: two generators, not yet started
PairFetch ==
    /\ calls < MaxStoreCalls
    /\ calls' = calls + 1
    /\ \E F \in Filters :
          /\ gen' = [NoGen EXCEPT !.active = TRUE, !.status = F]
          /\ pair' = [pair EXCEPT
                        !.gen = [NoGen EXCEPT !.active = TRUE, !.status = F]]
    /\ UNCHANGED <<mode, strategy, backend, data, opened, pc, run, job, ret,
                   lastWrite, atStart, dispatched, opLog, fs, two, conn,
                   jobdb, killed>>

\* one next() of a generator g over the store d of kind b
GenStep(b, d, g) ==
    LET n == GenNext(b, d, g)
    IN  [data |-> n.data, found |-> n.found,
         gen |-> IF n.found # 0
                 THEN [g EXCEPT !.started = TRUE, !.rest = n.rest,
                                !.yielded = Append(@, n.found)]
                 ELSE [g EXCEPT !.active = FALSE, !.started = TRUE,
                                !.rest = <<>>]]

\* next() on both generators, each as long as it has not ended
PairNext ==
    /\ gen.active \/ pair.gen.active
    /\ \E s \in {GenStep("sql", data, gen)},
          m \in {GenStep("dict", pair.data, pair.gen)} :
          /\ IF gen.active
             THEN /\ data' = s.data
                  /\ gen' = s.gen
                  /\ job' = IF s.found # 0 THEN [NoJob EXCEPT !.id = s.found]
                            ELSE job
             ELSE UNCHANGED <<data, gen, job>>
          /\ pair' = IF pair.gen.active
                     THEN [pair EXCEPT
                             !.data = m.data, !.gen = m.gen,
                             !.job = IF m.found # 0 THEN m.found ELSE @,
                             !.held = @ \cup ({m.found} \ {0})
                                        \cup (IF gen.active
                                              THEN {s.found} \ {0} ELSE {})]
                     ELSE [pair EXCEPT
                             !.held = @ \cup (IF gen.active
                                              THEN {s.found} \ {0} ELSE {})]
    /\ UNCHANGED <<mode, strategy, backend, opened, pc, run, ret, lastWrite,
                   atStart, dispatched, opLog, calls, fs, two, conn, jobdb,
                   killed>>

\* update_job(job, u) on both stores, for a job the caller got from a fetch
PairUpdate ==
    /\ calls < MaxStoreCalls
    /\ calls' = calls + 1
    /\ \E id \in pair.held, u \in UpdateMaps :
          /\ data' = update_job("sql", data, id, u)
          /\ pair' = [pair EXCEPT
                        !.data = update_job("dict", pair.data, id, u)]
          /\ lastWrite' = [id |-> id, updates |-> u, before |-> data[id],
                           after |-> data'[id], raised |-> FALSE]
    /\ UNCHANGED <<mode, strategy, backend, opened, gen, pc, run, job, ret,
                   atStart, dispatched, opLog, fs, two, conn, jobdb, killed>>

NextPair ==
    \/ PairFetch
    \/ PairNext
    \/ PairUpdate

SpecPair == InitPair /\ [][NextPair]_vars

\* the value of attribute k the relational store holds for job id, as a
\* caller reads it from the job object
SqlValue(d, id, k) ==
    IF k = "status" THEN process_result_value(d[id].status) ELSE d[id][k]

\* the set of the elements of a sequence
Range(seq) == {seq[i] : i \in 1..Len(seq)}

\* C35: the in-memory store and the relational store are observably
\* equivalent.  Started from the same jobs and given the same get_jobs and
\* update_job calls, a fetch that both generators have finished returned the
\* same set of jobs from both, and every attribute the in-memory store holds
\* for a job has the value the relational store holds for it.
C35_StoresEquivalent ==
    /\ (gen.started /\ ~gen.active /\ pair.gen.started /\ ~pair.gen.active)
          => Range(gen.yielded) = Range(pair.gen.yielded)
    /\ \A id \in DOMAIN pair.data :
          \A k \in (DOMAIN pair.data[id]) \cap Columns :
              pair.data[id][k] = SqlValue(data, id, k)

ListedExist == \A i \in 1..Len(fs.list) : Resolve(fs.list[i]).name \in fs.before

\* what the transfer is to have done: retcode 0, for each file of the list
\* its new path to_destination / file.name at the same place of the result,
\* every listed file at the destination and gone from the source, every
\* other file where it was
Moved ==
    LET listed == {Resolve(fs.list[i]).name : i \in 1..Len(fs.list)}
    IN  /\ fs.retcode = 0
        /\ Len(fs.results) = Len(fs.list)
        /\ \A i \in 1..Len(fs.list) :
              fs.results[i] = FilePath("to", fs.list[i].name)
        /\ \A f \in listed : f \in fs.dst /\ f \notin fs.src
        /\ \A f \in Files \ listed :
              /\ f \in fs.src <=> f \in fs.before
              /\ f \in fs.dst <=> f \in fs.dstBefore

C38_StartIdStored ==
    (/\ pc = "loop" /\ ret.ran = "Start" /\ ret.out.kind = "return"
     /\ ret.out.retcode = 0
     /\ "schedulerJobId" \in DOMAIN ret.out.updates
     /\ lastWrite.id = ret.id /\ ~lastWrite.raised
     /\ lastWrite.updates = ret.out.updates) =>
        /\ StoredStatus(backend, data, ret.id) = RUNNING
        /\ "schedulerJobId" \in DOMAIN data[ret.id]
        /\ data[ret.id].schedulerJobId = ret.out.updates.schedulerJobId
        /\ CheckStatus(JobOf(backend, data, ret.id), DefaultEnv).calls # <<>>

\* C39: update_job(job, updates) changes only the stored record of the job
\* whose id is job.id.  In the step in which the loop calls update_job, and
\* in the step in which the job's handler runs, the store keeps the jobs it
\* holds and the record of every other job is what it was.
C39_OtherJobsKept ==
    [][(pc = "exec" \/ pc = "update") =>
          /\ DOMAIN data' = DOMAIN data
          /\ \A id \in DOMAIN data :
                id # job.id => (data'[id] = data[id])]_vars

\* update_job has changed the row of job 1 of a Job table; job 2, which is
\* NEW and still to come in this run, has the row the run found
C39_Witness ==
    /\ backend = "sql" /\ pc = "loop" /\ run = 1
    /\ lastWrite.id = 1 /\ ~lastWrite.raised
    /\ lastWrite.before # lastWrite.after
    /\ data[1] = lastWrite.after
    /\ data[2] = atStart[1][2]
    /\ data[2].status = "new"

\* C40: in the runs of one controller the dispatcher never raises its
\* unknown-status error.  Every job the loop has passed to Operator.execute
\* had status exactly NEW or exactly RUNNING when it was dispatched, and a
\* handler was selected for it.
C40_DispatchKnownStatus ==
    /\ ret.id # 0 =>
          /\ ret.status \in {NEW_, RUNNING}
          /\ ret.ran \in {"Start", "CheckStatus"}
    /\ \A i \in 1..Len(dispatched) : dispatched[i].ran # "none"

\* the second run over a Job table dispatches, as RUNNING, a job that the
\* first run found NEW and whose Start wrote RUNNING
C40_Witness ==
    /\ backend = "sql" /\ run = 2 /\ pc = "update"
    /\ ret.id # 0 /\ ret.status = RUNNING /\ ret.ran = "CheckStatus"
    /\ atStart[1][ret.id].status = "new"

=============================================================================
